---- MODULE Spec2Model ----
(***************************************************************************)
(* The scripts of Project-WorldVision as state machines.                   *)
(*                                                                         *)
(* automated_analysis.py: the aggregation passes (engagement counts,       *)
(* repeat participations, demographic distributions, theme distributions)  *)
(* run over the loaded datasets, then the message samples and the data of  *)
(* the themes-by-gender graphs.  Each scan loop advances one record per    *)
(* step, and an uncaught Python exception stops the run where it is        *)
(* raised.                                                                 *)
(*                                                                         *)
(* export_contact_lists.py and export_weekly_ad_contacts.py: uuids are     *)
(* collected from traced data files, converted to phone numbers and        *)
(* written to a CSV.                                                       *)
(*                                                                         *)
(* Representation.  A TracedData record is a function from field names to  *)
(* values, so `field in td` is `field \in DOMAIN td`.  A dict is a         *)
(* function; an OrderedDict whose iteration order reaches an output is a   *)
(* record [keys, val].  A percentage round(x, 1) is held as <<"pct", t>>   *)
(* with t the number of tenths (50.0 is <<"pct", 500>>); the other cell    *)
(* values are None, Dash ("-") and Blank ("").                             *)
(***************************************************************************)
EXTENDS Integers, Sequences, FiniteSets, TLC

VARIABLES
    PipelineConfiguration,      \* the coding plans the run is configured with
    pass_order,                 \* the order in which the aggregation passes are run
    messages,                   \* the messages dataset, as loaded
    individuals,                \* the individuals dataset, as loaded
    pc,                         \* the block of the script that runs next
    error,                      \* the uncaught exception that ended the run, or NoError
    i,                          \* position of the scan loop in `individuals`
    episode,                    \* index of episode_plan in RQA_CODING_PLANS (theme pass)
    engagement_counts,
    repeat_participations,
    demographic_distributions,
    total_relevant,
    episodes,
    files,                      \* the CSV files opened for writing, in order, with their rows
    sample_cc,                  \* position of the sampling loop in the RQA configurations
    code_to_messages,           \* the pools of the configuration being sampled
    samples,
    drawn,                      \* the pool positions random.sample returned, draw by draw
    normal_by_gender,
    script,                     \* the script that is run
    traced_data,                \* the files named by traced_data_paths, each a list of records
    exclusion_list_file_path,
    uuid_table,                 \* the phone number <-> uuid table, as uuid -> phone number
    path,                       \* position of the loop over traced_data_paths
    uuids,
    county_counts,
    phone_numbers,
    skipped_uuids,
    log                         \* the numbers the export scripts report, in order

vars == <<PipelineConfiguration, pass_order, messages, individuals, pc, error, i, episode,
          engagement_counts, repeat_participations, demographic_distributions, total_relevant,
          episodes, files, sample_cc, code_to_messages, samples, drawn, normal_by_gender,
          script, traced_data, exclusion_list_file_path, uuid_table, path, uuids, county_counts,
          phone_numbers, skipped_uuids, log>>

\* what the aggregation passes read and never write, and what the later blocks write
inputs == <<PipelineConfiguration, pass_order, messages, individuals>>
after_passes == <<sample_cc, code_to_messages, samples, drawn, normal_by_gender>>

\* what the contact export scripts read and write, and what only the analysis writes
contacts == <<script, traced_data, exclusion_list_file_path, uuid_table, path, uuids,
              county_counts, phone_numbers, skipped_uuids, log>>
analysis == <<i, episode, engagement_counts, repeat_participations, demographic_distributions,
              total_relevant, episodes, after_passes>>

-----------------------------------------------------------------------------
(* Bounds of the model *)

MaxIndividuals == 3
MaxMessages == 2                \* length of the message lists built from every kind of message
MaxExcess == 1                  \* how far the largest pool exceeds the sample limit
MaxRecords == 2                 \* records in one traced data file of the export scripts
MaxFiles == 2                   \* traced data files given to an export script

-----------------------------------------------------------------------------
(* core_data_modules constants *)

Codes_TRUE == "true"
Codes_FALSE == "false"
Codes_STOP == "STOP"
CodeTypes_NORMAL == "Normal"
CodeTypes_CONTROL == "Control"
CodingModes_SINGLE == "SINGLE"
CodingModes_MULTIPLE == "MULTIPLE"

CONSENT_WITHDRAWN_KEY == "consent_withdrawn"

\* the most messages sampled for one code
SampleLimit == 100

NoneValue == "None"

(* cell values of the output tables *)
None == <<"None">>
Dash == <<"-">>
Blank == <<"">>
Pct(tenths) == <<"pct", tenths>>
Count(n) == <<"int", n>>

NoError == "NoError"
AssertionError == "AssertionError"
ZeroDivisionError == "ZeroDivisionError"
KeyError == "KeyError"
ValueError == "ValueError"

-----------------------------------------------------------------------------
(* Code schemes *)

Code(id, string_value, type, control) ==
    [code_id |-> id, string_value |-> string_value, code_type |-> type, control_code |-> control]

NormalCode(id, string_value) == Code(id, string_value, CodeTypes_NORMAL, NoneValue)
ControlCode(id, string_value, control) == Code(id, string_value, CodeTypes_CONTROL, control)

S01E01 ==
    [name |-> "s01e01",
     codes |-> << NormalCode("code-a", "a"), NormalCode("code-b", "b"),
                  ControlCode("code-NR", "NR", "NR"), ControlCode("code-STOP", "STOP", Codes_STOP) >>]

\* the scheme of the first episode with a theme that has a reserved name
S01E01_RESERVED ==
    [name |-> "s01e01",
     codes |-> << NormalCode("code-a", "a"), NormalCode("code-b", "knowledge"),
                  ControlCode("code-NR", "NR", "NR"), ControlCode("code-STOP", "STOP", Codes_STOP) >>]

S01E02 ==
    [name |-> "s01e02",
     codes |-> << NormalCode("code-c", "c"), ControlCode("code-STOP", "STOP", Codes_STOP) >>]

S01_CLOSE_OUT ==
    [name |-> "s01_close_out",
     codes |-> << NormalCode("code-d", "d"), ControlCode("code-NC", "NC", "NC") >>]

GENDER ==
    [name |-> "gender",
     codes |-> << NormalCode("code-male", "male"), NormalCode("code-female", "female"),
                  ControlCode("code-NC", "NC", "NC"), ControlCode("code-STOP", "STOP", Codes_STOP) >>]

AGE ==
    [name |-> "age",
     codes |-> << NormalCode("code-20", "20"), ControlCode("code-STOP", "STOP", Codes_STOP) >>]

AGE_CATEGORY ==
    [name |-> "age_category",
     codes |-> << NormalCode("code-18-35", "18 to 35"), ControlCode("code-NC", "NC", "NC"),
                  ControlCode("code-STOP", "STOP", Codes_STOP) >>]

\* a scheme with one NORMAL code and a STOP control code
YES_STOP ==
    [name |-> "yes_stop",
     codes |-> << NormalCode("code-yes", "yes"), ControlCode("code-STOP", "stop", Codes_STOP) >>]

NoSuchCode == Code("", "", "", "")

\* a variant that falls back on the first code of the scheme
get_code_or_first(code_scheme, code_id) ==
    LET hits == {k \in 1..Len(code_scheme.codes) : code_scheme.codes[k].code_id = code_id}
    IN  code_scheme.codes[IF hits = {} THEN 1 ELSE CHOOSE k \in hits : \A h \in hits : k <= h]

\* CodeScheme.get_code_with_code_id: the first code with that id, else a KeyError
\* (NoSuchCode here, turned into the KeyError by the caller).
get_code_with_code_id(code_scheme, code_id) ==
    LET hits == {k \in 1..Len(code_scheme.codes) : code_scheme.codes[k].code_id = code_id}
    IN  IF hits = {} THEN NoSuchCode
        ELSE code_scheme.codes[CHOOSE k \in hits : \A h \in hits : k <= h]

-----------------------------------------------------------------------------
(* Coding plans *)

CodingConfiguration(coded_field, code_scheme, coding_mode, analysis_file_key) ==
    [coded_field |-> coded_field, code_scheme |-> code_scheme, coding_mode |-> coding_mode,
     analysis_file_key |-> analysis_file_key]

CodingPlan(raw_field, dataset_name, coding_configurations) ==
    [raw_field |-> raw_field, dataset_name |-> dataset_name,
     coding_configurations |-> coding_configurations]

\* the plans of the reference configuration
ReferenceRqaPlans ==
    << CodingPlan("rqa_s01e01_raw", "s01e01",
           << CodingConfiguration("rqa_s01e01_coded", S01E01, CodingModes_MULTIPLE, "rqa_s01e01_") >>),
       CodingPlan("rqa_s01e02_raw", "s01e02",
           << CodingConfiguration("rqa_s01e02_coded", S01E02, CodingModes_MULTIPLE, "rqa_s01e02_"),
              CodingConfiguration("s01_close_out_coded", S01_CLOSE_OUT, CodingModes_MULTIPLE,
                                  "s01_close_out_") >>) >>

ReferenceDemogPlans ==
    << CodingPlan("gender_raw", "gender",
           << CodingConfiguration("gender_coded", GENDER, CodingModes_SINGLE, "gender") >>),
       CodingPlan("age_raw", "age",
           << CodingConfiguration("age_coded", AGE, CodingModes_SINGLE, NoneValue),
              CodingConfiguration("age_category_coded", AGE_CATEGORY, CodingModes_SINGLE,
                                  "age_category") >>) >>

Configuration(rqa, demog) ==
    [RQA_CODING_PLANS |-> rqa, DEMOG_CODING_PLANS |-> demog, SURVEY_CODING_PLANS |-> demog]

ReferenceConfiguration == Configuration(ReferenceRqaPlans, ReferenceDemogPlans)

\* a configuration whose gender plan is multi-select
MultipleDemogPlans ==
    << CodingPlan("gender_raw", "gender",
           << CodingConfiguration("gender_coded", GENDER, CodingModes_MULTIPLE, "gender") >>),
       ReferenceDemogPlans[2] >>

\* configurations with a single-select RQA configuration: the first of the first plan, the
\* second of the second plan
SingleFirstRqaPlans ==
    << CodingPlan("rqa_s01e01_raw", "s01e01",
           << CodingConfiguration("rqa_s01e01_coded", S01E01, CodingModes_SINGLE, "rqa_s01e01_") >>),
       ReferenceRqaPlans[2] >>

SingleLastRqaPlans ==
    << ReferenceRqaPlans[1],
       CodingPlan("rqa_s01e02_raw", "s01e02",
           << CodingConfiguration("rqa_s01e02_coded", S01E02, CodingModes_MULTIPLE, "rqa_s01e02_"),
              CodingConfiguration("s01_close_out_coded", S01_CLOSE_OUT, CodingModes_SINGLE,
                                  "s01_close_out_") >>) >>

\* a configuration whose first scheme names a reserved theme
ReservedRqaPlans ==
    << CodingPlan("rqa_s01e01_raw", "s01e01",
           << CodingConfiguration("rqa_s01e01_coded", S01E01_RESERVED, CodingModes_MULTIPLE,
                                  "rqa_s01e01_") >>),
       ReferenceRqaPlans[2] >>

Configurations ==
    { ReferenceConfiguration,
      Configuration(ReferenceRqaPlans, MultipleDemogPlans),
      Configuration(SingleFirstRqaPlans, ReferenceDemogPlans),
      Configuration(SingleLastRqaPlans, ReferenceDemogPlans),
      Configuration(ReservedRqaPlans, ReferenceDemogPlans) }

\* one plan with the scheme yes/stop, as an RQA plan and as a demographic plan
YesStopRqaPlans ==
    << CodingPlan("rqa_s01e01_raw", "s01e01",
           << CodingConfiguration("rqa_s01e01_coded", YES_STOP, CodingModes_MULTIPLE,
                                  "rqa_s01e01_") >>) >>

YesStopDemogPlans ==
    ReferenceDemogPlans \o
    << CodingPlan("answer_raw", "answer",
           << CodingConfiguration("answer_coded", YES_STOP, CodingModes_SINGLE, "answer") >>) >>

\* the plan in the RQA catalog only, and in both catalogs
YesStopConfigurations ==
    { Configuration(YesStopRqaPlans, ReferenceDemogPlans),
      Configuration(YesStopRqaPlans, YesStopDemogPlans) }

RQA_CODING_PLANS == PipelineConfiguration.RQA_CODING_PLANS
DEMOG_CODING_PLANS == PipelineConfiguration.DEMOG_CODING_PLANS
SURVEY_CODING_PLANS == PipelineConfiguration.SURVEY_CODING_PLANS

\* the coding configurations of a list of plans, in iteration order
RECURSIVE ConfigurationsOf(_)
ConfigurationsOf(plans) ==
    IF plans = <<>> THEN <<>>
    ELSE Head(plans).coding_configurations \o ConfigurationsOf(Tail(plans))

\* the configurations a pass keeps after `if cc.analysis_file_key is None: continue`
Keyed(ccs) == SelectSeq(ccs, LAMBDA cc : cc.analysis_file_key # NoneValue)

NotStop(codes) == SelectSeq(codes, LAMBDA code : code.control_code # Codes_STOP)

-----------------------------------------------------------------------------
(* Input records *)

Label(code_id) == [CodeID |-> code_id]

RECURSIVE SeqsUpTo(_, _)
SeqsUpTo(S, n) ==
    IF n = 0 THEN {<<>>}
    ELSE LET shorter == SeqsUpTo(S, n - 1)
         IN  shorter \cup {Append(s, x) : s \in shorter, x \in S}

\* one individual: the consent flag, the raw fields it has, its labels and its demographics
Individual(consent_withdrawn, raw_fields, s01e01, s01e02, close_out, gender, age_category) ==
    [consent_withdrawn |-> consent_withdrawn,
     rqa_s01e01_coded |-> s01e01,
     rqa_s01e02_coded |-> s01e02,
     s01_close_out_coded |-> close_out,
     gender_coded |-> Label(gender),
     age_coded |-> Label("code-20"),
     age_category_coded |-> Label(age_category)]
    @@ [f \in raw_fields |-> "message"]

Labels(code_ids) == [k \in 1..Len(code_ids) |-> Label(code_ids[k])]

\* The individuals of the model: the kinds of record the passes treat differently.
Individuals ==
    { \* a participant of the first episode with one NORMAL theme
      Individual(Codes_FALSE, {"rqa_s01e01_raw"}, Labels(<<"code-a">>), <<>>, <<>>,
                 "code-male", "code-18-35"),
      \* a participant of both episodes with several NORMAL themes in each
      Individual(Codes_FALSE, {"rqa_s01e01_raw", "rqa_s01e02_raw"}, Labels(<<"code-a", "code-b">>),
                 Labels(<<"code-c">>), Labels(<<"code-d">>), "code-female", "code-18-35"),
      \* a participant of the second episode only, with control codes only
      Individual(Codes_FALSE, {"rqa_s01e02_raw"}, <<>>, Labels(<<"code-STOP">>),
                 Labels(<<"code-NC">>), "code-NC", "code-NC"),
      \* labelled with a control code that is not STOP
      Individual(Codes_FALSE, {"rqa_s01e01_raw"}, Labels(<<"code-NR">>), <<>>, <<>>,
                 "code-male", "code-NC"),
      \* labelled with a NORMAL code and a control code that is not STOP
      Individual(Codes_FALSE, {"rqa_s01e01_raw"}, Labels(<<"code-a", "code-NR">>), <<>>,
                 Labels(<<"code-d">>), "code-female", "code-18-35"),
      \* labelled with the same code twice
      Individual(Codes_FALSE, {"rqa_s01e01_raw"}, Labels(<<"code-a", "code-a">>), <<>>, <<>>,
                 "code-female", "code-18-35"),
      \* consent not withdrawn, a STOP label next to a NORMAL one
      Individual(Codes_FALSE, {"rqa_s01e01_raw"}, Labels(<<"code-STOP", "code-b">>), <<>>, <<>>,
                 "code-male", "code-18-35"),
      \* consent not withdrawn, a STOP label only
      Individual(Codes_FALSE, {"rqa_s01e01_raw", "rqa_s01e02_raw"}, Labels(<<"code-STOP">>),
                 Labels(<<"code-c">>), <<>>, "code-male", "code-18-35"),
      \* consent withdrawn: STOP everywhere, no raw field left
      Individual(Codes_TRUE, {}, Labels(<<"code-STOP">>), Labels(<<"code-STOP">>), <<>>,
                 "code-STOP", "code-STOP"),
      \* consent withdrawn, the codes still in place
      Individual(Codes_TRUE, {"rqa_s01e01_raw"}, Labels(<<"code-a">>), <<>>, <<>>,
                 "code-male", "code-18-35"),
      \* consent not withdrawn and no raw field of any plan
      Individual(Codes_FALSE, {}, Labels(<<"code-a">>), <<>>, <<>>, "code-male", "code-18-35"),
      \* consent not withdrawn and a STOP demographic code
      Individual(Codes_FALSE, {"rqa_s01e01_raw"}, Labels(<<"code-a">>), <<>>, <<>>,
                 "code-male", "code-STOP") }

\* a message of the first episode
MessageS01E01(consent_withdrawn, text, s01e01) ==
    [consent_withdrawn |-> consent_withdrawn,
     rqa_s01e01_raw |-> text,
     rqa_s01e01_coded |-> s01e01]

\* a message of the second episode
MessageS01E02(consent_withdrawn, text, s01e02, close_out) ==
    [consent_withdrawn |-> consent_withdrawn,
     rqa_s01e02_raw |-> text,
     rqa_s01e02_coded |-> s01e02,
     s01_close_out_coded |-> close_out]

MessageA == MessageS01E01(Codes_FALSE, "text a", Labels(<<"code-a">>))
MessageB == MessageS01E01(Codes_FALSE, "text b", Labels(<<"code-b">>))
MessageAB == MessageS01E01(Codes_FALSE, "text a b", Labels(<<"code-a", "code-b">>))
MessageNR == MessageS01E01(Codes_FALSE, "text nr", Labels(<<"code-NR">>))
MessageCD == MessageS01E02(Codes_FALSE, "text c d", Labels(<<"code-c">>), Labels(<<"code-d">>))
\* consent withdrawn: the text and the labels overwritten with STOP
MessageStop == MessageS01E01(Codes_TRUE, "STOP", Labels(<<"code-STOP">>))
\* consent withdrawn, the labels still in place
MessageWithdrawn == MessageS01E01(Codes_TRUE, "text withdrawn", Labels(<<"code-a">>))
\* a label whose code id is not in the scheme
MessageUnknown == MessageS01E01(Codes_FALSE, "text unknown", Labels(<<"code-a", "code-unknown">>))

MessageKinds ==
    {MessageA, MessageAB, MessageNR, MessageCD, MessageStop, MessageWithdrawn, MessageUnknown}

Repeat(x, n) == [k \in 1..n |-> x]

\* message lists whose largest pool is just under, at and over the sample limit
LargeDatasets ==
    {<<MessageB, MessageStop>> \o Repeat(MessageA, n) \o <<MessageCD>> :
        n \in (SampleLimit - 1)..(SampleLimit + MaxExcess)}

MessageDatasets == SeqsUpTo(MessageKinds, MaxMessages) \cup LargeDatasets

\* the individuals of the runs that vary the configuration
ConfiguredIndividuals ==
    { Individual(Codes_FALSE, {"rqa_s01e01_raw"}, Labels(<<"code-a">>), <<>>, <<>>,
                 "code-male", "code-18-35"),
      Individual(Codes_FALSE, {"rqa_s01e01_raw", "rqa_s01e02_raw"}, Labels(<<"code-a", "code-b">>),
                 Labels(<<"code-c">>), Labels(<<"code-d">>), "code-female", "code-18-35"),
      Individual(Codes_FALSE, {"rqa_s01e01_raw"}, Labels(<<"code-b", "code-NR">>), <<>>, <<>>,
                 "code-male", "code-NC"),
      Individual(Codes_TRUE, {}, Labels(<<"code-STOP">>), Labels(<<"code-STOP">>), <<>>,
                 "code-STOP", "code-STOP") }

\* the individuals of the runs that vary the order of the passes: a participant of one
\* plan, one of both plans, one whose consent is withdrawn, and a consenting individual
\* that took part in no plan
ReorderedIndividuals ==
    { Individual(Codes_FALSE, {"rqa_s01e01_raw"}, Labels(<<"code-a">>), <<>>, <<>>,
                 "code-male", "code-18-35"),
      Individual(Codes_FALSE, {"rqa_s01e01_raw", "rqa_s01e02_raw"}, Labels(<<"code-a", "code-b">>),
                 Labels(<<"code-c">>), Labels(<<"code-d">>), "code-female", "code-18-35"),
      Individual(Codes_TRUE, {}, Labels(<<"code-STOP">>), Labels(<<"code-STOP">>), <<>>,
                 "code-STOP", "code-STOP"),
      Individual(Codes_FALSE, {}, <<>>, <<>>, <<>>, "code-male", "code-18-35") }

\* an individual of the yes/stop runs: consent not withdrawn, one code of the scheme as
\* its label and as its answer
YesStopIndividual(code_id) ==
    Individual(Codes_FALSE, {"rqa_s01e01_raw"}, Labels(<<code_id>>), <<>>, <<>>,
               "code-male", "code-18-35")
    @@ [answer_coded |-> Label(code_id)]

YesStopIndividuals == {YesStopIndividual("code-yes"), YesStopIndividual("code-STOP")}

\* A coded yes, B coded stop, C coded yes
EndToEndIndividuals ==
    << YesStopIndividual("code-yes"), YesStopIndividual("code-STOP"),
       YesStopIndividual("code-yes") >>

YesStopMessages == << MessageS01E01(Codes_FALSE, "text yes", Labels(<<"code-yes">>)) >>

\* the message list of the runs that vary the individuals
ReferenceMessages == <<MessageA, MessageStop, MessageCD>>

ReferenceIndividuals ==
    << Individual(Codes_FALSE, {"rqa_s01e01_raw"}, Labels(<<"code-a">>), <<>>, <<>>,
                  "code-male", "code-18-35") >>

\* the individuals datasets of the runs that vary the messages: one whose codes all
\* resolve, and some with a code id that is in no scheme (a demographic of a consenting
\* individual, a label of a consenting individual, the codes of a withdrawn one)
IndividualDatasets ==
    { ReferenceIndividuals,
      << Individual(Codes_FALSE, {"rqa_s01e01_raw"}, Labels(<<"code-a">>), <<>>, <<>>,
                    "code-unknown", "code-18-35") >>,
      ReferenceIndividuals \o
          << Individual(Codes_FALSE, {"rqa_s01e01_raw", "rqa_s01e02_raw"}, Labels(<<"code-a">>),
                        Labels(<<"code-c", "code-unknown">>), <<>>, "code-female", "code-18-35") >>,
      << Individual(Codes_TRUE, {}, Labels(<<"code-unknown">>), <<>>, <<>>,
                    "code-unknown", "code-unknown") >> \o ReferenceIndividuals }

-----------------------------------------------------------------------------
(* Arithmetic *)

\* round(count / total * 100, 1) in tenths, for total > 0: the nearest tenth, a tie
\* going to the even tenth as Python rounds an exactly representable x.x5.
Round1(count, total) ==
    LET q == (1000 * count) \div total
        r == (1000 * count) % total
    IN  IF 2 * r < total THEN q
        ELSE IF 2 * r > total THEN q + 1
        ELSE IF q % 2 = 0 THEN q ELSE q + 1

RECURSIVE SumOver(_, _)
SumOver(f, S) ==
    IF S = {} THEN 0
    ELSE LET x == CHOOSE y \in S : TRUE IN f[x] + SumOver(f, S \ {x})

\* where a scan loop goes after the record at position n
AfterRecord(n, scan, next) == IF n > Len(individuals) THEN next ELSE scan

OpenFile(name, rows) == Append(files, [name |-> name, rows |-> rows])

-----------------------------------------------------------------------------
(* The aggregation passes and their order *)

ReferenceOrder == << "engagement", "repeat", "demog", "theme" >>

\* the orders in which the four passes can be run
PassOrders ==
    {order \in [1..Len(ReferenceOrder) -> {ReferenceOrder[k] : k \in 1..Len(ReferenceOrder)}] :
        \A k \in 1..Len(ReferenceOrder) : \E n \in 1..Len(ReferenceOrder) :
            order[n] = ReferenceOrder[k]}

\* the first block of a pass
FirstBlock(pass) ==
    CASE pass = "engagement" -> "engagement"
      [] pass = "repeat" -> "repeat_init"
      [] pass = "demog" -> "demog_init"
      [] pass = "theme" -> "theme_init"

\* the block that runs when a pass has exported its table: the next pass, or the sampling
\* that follows the last of them
PassAfter(pass) ==
    LET k == CHOOSE n \in 1..Len(pass_order) : pass_order[n] = pass
    IN  IF k = Len(pass_order) THEN "sample" ELSE FirstBlock(pass_order[k + 1])

-----------------------------------------------------------------------------
(* Record filters *)

\* AnalysisUtils.opt_in: consent not withdrawn and a response to the plan
opt_in(td, consent_withdrawn_key, plan) ==
    /\ td[consent_withdrawn_key] = Codes_FALSE
    /\ plan.raw_field \in DOMAIN td

\* AnalysisUtils.filter_opt_ins: the records that opted in to one of the plans at least
filter_opt_ins(data, consent_withdrawn_key, plans) ==
    SelectSeq(data, LAMBDA td : \E p \in 1..Len(plans) :
                                   opt_in(td, consent_withdrawn_key, plans[p]))

-----------------------------------------------------------------------------
(* Engagement counts *)

EmptyDict == [keys |-> <<>>, val |-> <<>>]

\* d[k] = v on an OrderedDict: a new key goes last, a key it has keeps its place
Put(d, k, v) ==
    [keys |-> IF k \in DOMAIN d.val THEN d.keys ELSE Append(d.keys, k),
     val |-> (k :> v) @@ d.val]

\* a variant of the per-plan row that counts the messages of the plan
engagement_plan_row_counted(plan) ==
    [Episode |-> plan.dataset_name,
     Total_Messages |-> Count(Len(SelectSeq(messages, LAMBDA td : plan.raw_field \in DOMAIN td))),
     Total_Messages_with_Opt_Ins |->
         Count(Len(filter_opt_ins(messages, CONSENT_WITHDRAWN_KEY, << plan >>))),
     Total_Participants |-> Dash,
     Total_Participants_with_Opt_Ins |->
         Count(Len(filter_opt_ins(individuals, CONSENT_WITHDRAWN_KEY, << plan >>)))]

\* the row of one plan ("Total Labelled Messages" and the two "Total Relevant" cells,
\* which come from other filters of AnalysisUtils, are left out)
engagement_plan_row(plan) ==
    [Episode |-> plan.dataset_name,
     Total_Messages |-> Dash,
     Total_Messages_with_Opt_Ins |->
         Count(Len(filter_opt_ins(messages, CONSENT_WITHDRAWN_KEY, << plan >>))),
     Total_Participants |-> Dash,
     Total_Participants_with_Opt_Ins |->
         Count(Len(filter_opt_ins(individuals, CONSENT_WITHDRAWN_KEY, << plan >>)))]

engagement_total_row ==
    [Episode |-> "Total",
     Total_Messages |-> Count(Len(messages)),
     Total_Messages_with_Opt_Ins |->
         Count(Len(filter_opt_ins(messages, CONSENT_WITHDRAWN_KEY, RQA_CODING_PLANS))),
     Total_Participants |-> Count(Len(individuals)),
     Total_Participants_with_Opt_Ins |->
         Count(Len(filter_opt_ins(individuals, CONSENT_WITHDRAWN_KEY, RQA_CODING_PLANS)))]

\* engagement_counts[plan.dataset_name] = {...}, plan by plan
RECURSIVE EngagementRows(_, _)
EngagementRows(plans, counts) ==
    IF plans = <<>> THEN counts
    ELSE EngagementRows(Tail(plans),
             Put(counts, Head(plans).dataset_name, engagement_plan_row(Head(plans))))

\* engagement_counts.values()
Values(d) == [k \in 1..Len(d.keys) |-> d.val[d.keys[k]]]

Engagement ==
    /\ pc = "engagement" /\ error = NoError
    /\ engagement_counts' =
           Put(EngagementRows(RQA_CODING_PLANS, EmptyDict), "Total", engagement_total_row)
    /\ files' = OpenFile("engagement_counts.csv", Values(engagement_counts'))
    /\ pc' = PassAfter("engagement")
    /\ UNCHANGED <<inputs, contacts, after_passes, error, i, episode, repeat_participations,
                   demographic_distributions, total_relevant, episodes>>

-----------------------------------------------------------------------------
(* Repeat participations *)

RepeatInit ==
    /\ pc = "repeat_init" /\ error = NoError
    /\ repeat_participations' =
          [k \in 1..Len(RQA_CODING_PLANS) |->
              [Episodes_Participated_In |-> k, Number_of_Individuals |-> 0,
               Pct_of_Individuals |-> None]]
    /\ i' = 1
    /\ pc' = AfterRecord(1, "repeat_scan", "repeat_percent")
    /\ UNCHANGED <<inputs, contacts, after_passes, error, episode, engagement_counts,
                   demographic_distributions, total_relevant, episodes, files>>

\* a variant that records participation, not the number of plans
weeks_participated_at_most_once(ind) ==
    IF \E p \in 1..Len(RQA_CODING_PLANS) : RQA_CODING_PLANS[p].raw_field \in DOMAIN ind
    THEN 1 ELSE 0

\* a variant whose counter starts at 1
weeks_participated_from_one(ind) ==
    1 + Cardinality({p \in 1..Len(RQA_CODING_PLANS) :
                        RQA_CODING_PLANS[p].raw_field \in DOMAIN ind})

\* a variant that reads the tally of the demographic pass: once that tally is there, an
\* individual counts as a participant of one plan
weeks_participated_shared(ind) ==
    IF DOMAIN total_relevant # {}
    THEN weeks_participated_at_most_once(ind)
    ELSE Cardinality({p \in 1..Len(RQA_CODING_PLANS) :
                         RQA_CODING_PLANS[p].raw_field \in DOMAIN ind})

weeks_participated(ind) ==
    Cardinality({p \in 1..Len(RQA_CODING_PLANS) : RQA_CODING_PLANS[p].raw_field \in DOMAIN ind})

\* the condition under which `assert weeks_participated != 0` fails
NoParticipation(weeks) == weeks = 0

RepeatScan ==
    /\ pc = "repeat_scan" /\ error = NoError
    /\ LET ind == individuals[i]
           weeks == weeks_participated(ind)
       IN  IF ind.consent_withdrawn # Codes_FALSE
           THEN /\ i' = i + 1
                /\ pc' = AfterRecord(i + 1, "repeat_scan", "repeat_percent")
                /\ UNCHANGED <<error, repeat_participations>>
           ELSE IF NoParticipation(weeks)
           THEN /\ error' = AssertionError
                /\ UNCHANGED <<i, pc, repeat_participations>>
           ELSE IF weeks \notin DOMAIN repeat_participations
           THEN /\ error' = KeyError
                /\ UNCHANGED <<i, pc, repeat_participations>>
           ELSE /\ repeat_participations' =
                      [repeat_participations EXCEPT ![weeks].Number_of_Individuals = @ + 1]
                /\ i' = i + 1
                /\ pc' = AfterRecord(i + 1, "repeat_scan", "repeat_percent")
                /\ UNCHANGED error
    /\ UNCHANGED <<inputs, contacts, after_passes, episode, engagement_counts, demographic_distributions,
                   total_relevant, episodes, files>>

NotWithdrawn == {n \in 1..Len(individuals) : individuals[n].consent_withdrawn = Codes_FALSE}

RepeatPercent ==
    /\ pc = "repeat_percent" /\ error = NoError
    /\ LET total_individuals == Cardinality(NotWithdrawn)
       IN  IF total_individuals = 0
           THEN /\ error' = ZeroDivisionError
                /\ UNCHANGED <<pc, repeat_participations>>
           ELSE /\ repeat_participations' =
                      [k \in DOMAIN repeat_participations |->
                          [repeat_participations[k] EXCEPT !.Pct_of_Individuals =
                              Pct(Round1(repeat_participations[k].Number_of_Individuals,
                                         total_individuals))]]
                /\ pc' = "repeat_export"
                /\ UNCHANGED error
    /\ UNCHANGED <<inputs, contacts, after_passes, i, episode, engagement_counts, demographic_distributions,
                   total_relevant, episodes, files>>

RepeatExport ==
    /\ pc = "repeat_export" /\ error = NoError
    /\ files' = OpenFile("repeat_participations.csv", repeat_participations)
    /\ pc' = PassAfter("repeat")
    /\ UNCHANGED <<inputs, contacts, after_passes, error, i, episode, engagement_counts, repeat_participations,
                   demographic_distributions, total_relevant, episodes>>

-----------------------------------------------------------------------------
(* Demographic distributions *)

\* a variant that gives the STOP codes a bucket too
DemogBucketsEveryCode(code_scheme) ==
    [code_id \in {code_scheme.codes[k].code_id : k \in 1..Len(code_scheme.codes)} |-> 0]

\* the buckets one configuration gets: every code of its scheme but the STOP codes
DemogBuckets(code_scheme) ==
    [code_id \in {code.code_id : code \in {code_scheme.codes[k] : k \in
                    {n \in 1..Len(code_scheme.codes) :
                        code_scheme.codes[n].control_code # Codes_STOP}}} |-> 0]

RECURSIVE DemogPrepopulate(_, _)
DemogPrepopulate(ccs, st) ==
    IF ccs = <<>> THEN st
    ELSE LET cc == Head(ccs)
         IN  DemogPrepopulate(Tail(ccs),
                 [dd |-> (cc.analysis_file_key :> DemogBuckets(cc.code_scheme)) @@ st.dd,
                  tr |-> (cc.analysis_file_key :> 0) @@ st.tr])

DemogInit ==
    /\ pc = "demog_init" /\ error = NoError
    /\ LET st == DemogPrepopulate(Keyed(ConfigurationsOf(DEMOG_CODING_PLANS)),
                                  [dd |-> <<>>, tr |-> <<>>])
       IN  /\ demographic_distributions' = st.dd
           /\ total_relevant' = st.tr
    /\ i' = 1
    /\ pc' = AfterRecord(1, "demog_scan", "demog_export")
    /\ UNCHANGED <<inputs, contacts, after_passes, error, episode, engagement_counts, repeat_participations,
                   episodes, files>>

\* a variant that counts an assignment only when its code is NORMAL
CountCodeNormalOnly(dd, key, code) ==
    IF code.code_type = CodeTypes_NORMAL THEN [dd EXCEPT ![key][code.code_id] = @ + 1] ELSE dd

\* a variant that adds 2
CountCodeTwice(dd, key, code) == [dd EXCEPT ![key][code.code_id] = @ + 2]

\* demographic_distributions[key][code.code_id] += 1
CountCode(dd, key, code) == [dd EXCEPT ![key][code.code_id] = @ + 1]

\* a variant whose denominator counts every assignment
CountsEveryCodeAsRelevant(code) == TRUE

\* the denominator counts the assignments whose code is NORMAL
CountsAsRelevant(code) == code.code_type = CodeTypes_NORMAL

\* the body of the scan loop for one individual, configuration by configuration; an
\* exception leaves the tallies as they are when it is raised
RECURSIVE DemogCount(_, _, _)
DemogCount(ccs, ind, st) ==
    IF ccs = <<>> \/ st.err # NoError THEN st
    ELSE LET cc == Head(ccs)
             key == cc.analysis_file_key
             code == get_code_with_code_id(cc.code_scheme, ind[cc.coded_field].CodeID)
         IN  IF cc.coding_mode # CodingModes_SINGLE THEN [st EXCEPT !.err = AssertionError]
             ELSE IF code = NoSuchCode THEN [st EXCEPT !.err = KeyError]
             ELSE IF code.code_id \notin DOMAIN st.dd[key] THEN [st EXCEPT !.err = KeyError]
             ELSE DemogCount(Tail(ccs), ind,
                      [dd |-> CountCode(st.dd, key, code),
                       tr |-> IF CountsAsRelevant(code)
                              THEN [st.tr EXCEPT ![key] = @ + 1] ELSE st.tr,
                       err |-> NoError])

DemogScan ==
    /\ pc = "demog_scan" /\ error = NoError
    /\ LET ind == individuals[i]
           st == IF ind.consent_withdrawn = Codes_TRUE
                 THEN [dd |-> demographic_distributions, tr |-> total_relevant, err |-> NoError]
                 ELSE DemogCount(Keyed(ConfigurationsOf(DEMOG_CODING_PLANS)), ind,
                          [dd |-> demographic_distributions, tr |-> total_relevant,
                           err |-> NoError])
       IN  /\ demographic_distributions' = st.dd
           /\ total_relevant' = st.tr
           /\ error' = st.err
           /\ i' = IF st.err = NoError THEN i + 1 ELSE i
           /\ pc' = IF st.err = NoError
                    THEN AfterRecord(i + 1, "demog_scan", "demog_export") ELSE pc
    /\ UNCHANGED <<inputs, contacts, after_passes, episode, engagement_counts, repeat_participations,
                   episodes, files>>

\* (configuration, position, code) for every code of the configurations, in loop order
RECURSIVE CodeCells(_)
CodeCells(ccs) ==
    IF ccs = <<>> THEN <<>>
    ELSE [k \in 1..Len(Head(ccs).code_scheme.codes) |->
             [cc |-> Head(ccs), index |-> k - 1, code |-> Head(ccs).code_scheme.codes[k]]]
         \o CodeCells(Tail(ccs))

\* the rows written to demographic_distributions.csv, up to the first exception
RECURSIVE DemogRows(_, _)
DemogRows(cells, st) ==
    IF cells = <<>> \/ st.err # NoError THEN st
    ELSE LET cc == Head(cells).cc
             code == Head(cells).code
             key == cc.analysis_file_key
             participants_with_opt_ins == demographic_distributions[key][code.code_id]
             row == [Demographic |-> IF Head(cells).index = 0 THEN key ELSE "",
                     Code |-> code.string_value,
                     Participants_with_Opt_Ins |-> participants_with_opt_ins]
         IN  IF code.control_code = Codes_STOP THEN DemogRows(Tail(cells), st)
             ELSE IF code.code_type = CodeTypes_NORMAL
             THEN IF total_relevant[key] = 0 THEN [st EXCEPT !.err = ZeroDivisionError]
                  ELSE DemogRows(Tail(cells),
                           [st EXCEPT !.rows = Append(@, row @@ [Percent |->
                               Pct(Round1(participants_with_opt_ins, total_relevant[key]))])])
             ELSE DemogRows(Tail(cells),
                      [st EXCEPT !.rows = Append(@, row @@ [Percent |-> Blank])])

DemogExport ==
    /\ pc = "demog_export" /\ error = NoError
    /\ LET st == DemogRows(CodeCells(Keyed(ConfigurationsOf(DEMOG_CODING_PLANS))),
                           [rows |-> <<>>, err |-> NoError])
       IN  /\ files' = OpenFile("demographic_distributions.csv", st.rows)
           /\ error' = st.err
           /\ pc' = IF st.err = NoError THEN PassAfter("demog") ELSE pc
           /\ episode' = 1
    /\ UNCHANGED <<inputs, contacts, after_passes, i, engagement_counts, repeat_participations,
                   demographic_distributions, total_relevant, episodes>>

-----------------------------------------------------------------------------
(* Theme distributions *)

TotalRelevantParticipants == "Total Relevant Participants"
TotalParticipants == "Total Participants"
TotalParticipantsPct == "Total Participants %"

CountKey(cc, code) == cc.analysis_file_key \o ":" \o code.string_value
PctKey(cc, code) == CountKey(cc, code) \o " %"
ThemeKey(cc, code) == cc.analysis_file_key \o code.string_value

\* the (configuration, code) pairs of the survey plans that have a slot in a row
SurveyCells ==
    SelectSeq(CodeCells(Keyed(ConfigurationsOf(SURVEY_CODING_PLANS))),
              LAMBDA cell : cell.code.control_code # Codes_STOP)

RECURSIVE SurveySlots(_, _)
SurveySlots(cells, survey_counts) ==
    IF cells = <<>> THEN survey_counts
    ELSE SurveySlots(Tail(cells),
             (PctKey(Head(cells).cc, Head(cells).code) :> None)
             @@ (CountKey(Head(cells).cc, Head(cells).code) :> 0)
             @@ survey_counts)

make_survey_counts_dict ==
    SurveySlots(SurveyCells, (TotalParticipantsPct :> None) @@ (TotalParticipants :> 0))

\* survey_counts[...] += 1 for each code of one configuration that is not a STOP code
RECURSIVE AddSurveyCodes(_, _, _)
AddSurveyCodes(codes, cc, st) ==
    IF codes = <<>> \/ st.err # NoError THEN st
    ELSE LET code == Head(codes)
             key == CountKey(cc, code)
         IN  IF code.control_code = Codes_STOP THEN AddSurveyCodes(Tail(codes), cc, st)
             ELSE IF key \notin DOMAIN st.counts THEN [st EXCEPT !.err = KeyError]
             ELSE AddSurveyCodes(Tail(codes), cc, [st EXCEPT !.counts[key] = @ + 1])

RECURSIVE UpdateSurveyCounts(_, _, _)
UpdateSurveyCounts(ccs, td, st) ==
    IF ccs = <<>> \/ st.err # NoError THEN st
    ELSE LET cc == Head(ccs)
             labels == IF cc.coding_mode = CodingModes_SINGLE
                       THEN <<td[cc.coded_field]>> ELSE td[cc.coded_field]
             codes == [k \in 1..Len(labels) |->
                          get_code_with_code_id(cc.code_scheme, labels[k].CodeID)]
         IN  IF cc.coding_mode \notin {CodingModes_SINGLE, CodingModes_MULTIPLE}
             THEN [st EXCEPT !.err = AssertionError]
             ELSE IF \E k \in 1..Len(codes) : codes[k] = NoSuchCode
             THEN [st EXCEPT !.err = KeyError]
             ELSE UpdateSurveyCounts(Tail(ccs), td, AddSurveyCodes(codes, cc, st))

\* a variant that counts the answer of the first configuration only
update_survey_counts_first(survey_counts, td) ==
    UpdateSurveyCounts(SubSeq(Keyed(ConfigurationsOf(SURVEY_CODING_PLANS)), 1, 1), td,
                       [counts |-> survey_counts, err |-> NoError])

\* [counts, err]: the row after update_survey_counts(survey_counts, td)
update_survey_counts(survey_counts, td) ==
    UpdateSurveyCounts(Keyed(ConfigurationsOf(SURVEY_CODING_PLANS)), td,
                       [counts |-> survey_counts, err |-> NoError])

\* a variant that truncates to one decimal place
PercentageTruncated(count, total) ==
    IF total = 0 THEN Dash ELSE Pct((1000 * count) \div total)

\* one percentage slot: "-" on a zero denominator, else the rounded percentage
Percentage(count, total) == IF total = 0 THEN Dash ELSE Pct(Round1(count, total))

RECURSIVE SetSurveySlots(_, _, _)
SetSurveySlots(cells, survey_counts, total_survey_counts) ==
    IF cells = <<>> THEN survey_counts
    ELSE LET count_key == CountKey(Head(cells).cc, Head(cells).code)
             pct_key == PctKey(Head(cells).cc, Head(cells).code)
         IN  SetSurveySlots(Tail(cells),
                 [survey_counts EXCEPT ![pct_key] =
                     Percentage(survey_counts[count_key], total_survey_counts[count_key])],
                 total_survey_counts)

set_survey_percentages(survey_counts, total_survey_counts) ==
    SetSurveySlots(SurveyCells,
        [survey_counts EXCEPT ![TotalParticipantsPct] =
            Percentage(survey_counts[TotalParticipants], total_survey_counts[TotalParticipants])],
        total_survey_counts)

\* the codes of a scheme that get a theme row
ThemeCodes(code_scheme) == NotStop(code_scheme.codes)

RECURSIVE ThemeRows(_, _, _)
ThemeRows(codes, cc, themes) ==
    IF codes = <<>> THEN themes
    ELSE ThemeRows(Tail(codes), cc, Put(themes, ThemeKey(cc, Head(codes)), make_survey_counts_dict))

\* a variant that prepares the rows without looking at the coding mode
RECURSIVE ThemePrepopulateUnchecked(_, _)
ThemePrepopulateUnchecked(ccs, st) ==
    IF ccs = <<>> THEN st
    ELSE ThemePrepopulateUnchecked(Tail(ccs),
             [st EXCEPT !.themes =
                 ThemeRows(ThemeCodes(Head(ccs).code_scheme), Head(ccs),
                     Put(st.themes, TotalRelevantParticipants, make_survey_counts_dict))])

RECURSIVE ThemePrepopulate(_, _)
ThemePrepopulate(ccs, st) ==
    IF ccs = <<>> \/ st.err # NoError THEN st
    ELSE LET cc == Head(ccs)
         IN  IF cc.coding_mode # CodingModes_MULTIPLE THEN [st EXCEPT !.err = AssertionError]
             ELSE ThemePrepopulate(Tail(ccs),
                      [st EXCEPT !.themes =
                          ThemeRows(ThemeCodes(cc.code_scheme), cc,
                              Put(st.themes, TotalRelevantParticipants, make_survey_counts_dict))])

episode_plan == RQA_CODING_PLANS[episode]

ThemeInit ==
    /\ pc = "theme_init" /\ error = NoError
    /\ LET st == ThemePrepopulate(episode_plan.coding_configurations,
                                  [themes |-> EmptyDict, err |-> NoError])
       IN  /\ episodes' = Put(episodes, episode_plan.raw_field, st.themes)
           /\ error' = st.err
           /\ pc' = IF st.err = NoError
                    THEN AfterRecord(1, "theme_scan", "theme_finalise") ELSE pc
    /\ i' = 1
    /\ UNCHANGED <<inputs, contacts, after_passes, episode, engagement_counts, repeat_participations,
                   demographic_distributions, total_relevant, files>>

\* a variant that skips every control code
SkipsEveryControlCode(code) == code.code_type # CodeTypes_NORMAL

\* whether a label's code is skipped by the theme scan
SkippedInThemes(code) == code.control_code = Codes_STOP

\* a variant in which every counted label marks the individual relevant
MarksRelevantAnyCode(code) == TRUE

\* whether a counted label makes its individual a relevant participant
MarksRelevant(code) == code.code_type = CodeTypes_NORMAL

\* themes[key]["Total Participants"] += 1; update_survey_counts(themes[key], td)
CountInRow(st, key, td) ==
    IF key \notin DOMAIN st.themes.val THEN [st EXCEPT !.err = KeyError]
    ELSE LET upd == update_survey_counts(
                        [st.themes.val[key] EXCEPT ![TotalParticipants] = @ + 1], td)
         IN  [st EXCEPT !.themes.val[key] = upd.counts, !.err = upd.err]

RECURSIVE ThemeLabels(_, _, _, _)
ThemeLabels(labels, cc, td, st) ==
    IF labels = <<>> \/ st.err # NoError THEN st
    ELSE LET code == get_code_with_code_id(cc.code_scheme, Head(labels).CodeID)
         IN  IF code = NoSuchCode THEN [st EXCEPT !.err = KeyError]
             ELSE IF SkippedInThemes(code) THEN ThemeLabels(Tail(labels), cc, td, st)
             ELSE LET counted == CountInRow(st, ThemeKey(cc, code), td)
                  IN  ThemeLabels(Tail(labels), cc, td,
                          IF counted.err = NoError /\ MarksRelevant(code)
                          THEN [counted EXCEPT !.relevant_participant = TRUE]
                          ELSE counted)

RECURSIVE ThemeCount(_, _, _)
ThemeCount(ccs, td, st) ==
    IF ccs = <<>> \/ st.err # NoError THEN st
    ELSE LET cc == Head(ccs)
         IN  IF cc.coding_mode # CodingModes_MULTIPLE THEN [st EXCEPT !.err = AssertionError]
             ELSE ThemeCount(Tail(ccs), td, ThemeLabels(td[cc.coded_field], cc, td, st))

\* the body of the theme scan loop for one individual
ThemeCountIndividual(themes, td) ==
    IF td.consent_withdrawn = Codes_TRUE
    THEN [themes |-> themes, relevant_participant |-> FALSE, err |-> NoError]
    ELSE LET st == ThemeCount(episode_plan.coding_configurations, td,
                       [themes |-> themes, relevant_participant |-> FALSE, err |-> NoError])
         IN  IF st.err = NoError /\ st.relevant_participant
             THEN CountInRow(st, TotalRelevantParticipants, td)
             ELSE st

ThemeScan ==
    /\ pc = "theme_scan" /\ error = NoError
    /\ LET st == ThemeCountIndividual(episodes.val[episode_plan.raw_field], individuals[i])
       IN  /\ episodes' = [episodes EXCEPT !.val[episode_plan.raw_field] = st.themes]
           /\ error' = st.err
           /\ i' = IF st.err = NoError THEN i + 1 ELSE i
           /\ pc' = IF st.err = NoError
                    THEN AfterRecord(i + 1, "theme_scan", "theme_finalise") ELSE pc
    /\ UNCHANGED <<inputs, contacts, after_passes, episode, engagement_counts, repeat_participations,
                   demographic_distributions, total_relevant, files>>

\* a variant that sets the percentages of every theme row
FinalisesEveryThemeCode(code_scheme) == ThemeCodes(code_scheme)

\* the codes of a scheme whose theme rows get their percentages set
FinalisedCodes(code_scheme) ==
    SelectSeq(code_scheme.codes, LAMBDA code : code.code_type = CodeTypes_NORMAL)

RECURSIVE FinaliseRows(_, _, _)
FinaliseRows(codes, cc, st) ==
    IF codes = <<>> \/ st.err # NoError THEN st
    ELSE LET key == ThemeKey(cc, Head(codes))
         IN  IF key \notin DOMAIN st.themes.val THEN [st EXCEPT !.err = KeyError]
             ELSE FinaliseRows(Tail(codes), cc,
                      [st EXCEPT !.themes.val[key] =
                          set_survey_percentages(@, st.themes.val[TotalRelevantParticipants])])

RECURSIVE FinaliseThemes(_, _)
FinaliseThemes(ccs, st) ==
    IF ccs = <<>> \/ st.err # NoError THEN st
    ELSE LET cc == Head(ccs)
         IN  IF cc.coding_mode # CodingModes_MULTIPLE THEN [st EXCEPT !.err = AssertionError]
             ELSE FinaliseThemes(Tail(ccs), FinaliseRows(FinalisedCodes(cc.code_scheme), cc, st))

ThemeFinalise ==
    /\ pc = "theme_finalise" /\ error = NoError
    /\ LET themes == episodes.val[episode_plan.raw_field]
           st == IF TotalRelevantParticipants \notin DOMAIN themes.val
                 THEN [themes |-> themes, err |-> KeyError]
                 ELSE FinaliseThemes(episode_plan.coding_configurations,
                          [themes |-> [themes EXCEPT !.val[TotalRelevantParticipants] =
                                          set_survey_percentages(@, @)],
                           err |-> NoError])
       IN  /\ episodes' = [episodes EXCEPT !.val[episode_plan.raw_field] = st.themes]
           /\ error' = st.err
           /\ episode' = IF st.err = NoError /\ episode < Len(RQA_CODING_PLANS)
                         THEN episode + 1 ELSE episode
           /\ pc' = IF st.err # NoError THEN pc
                    ELSE IF episode < Len(RQA_CODING_PLANS) THEN "theme_init"
                    ELSE "theme_export"
    /\ UNCHANGED <<inputs, contacts, after_passes, i, engagement_counts, repeat_participations,
                   demographic_distributions, total_relevant, files>>

\* the rows of one episode, in the order of its themes
ThemeFileRowsOf(episode_key, themes) ==
    [k \in 1..Len(themes.keys) |->
        themes.val[themes.keys[k]]
        @@ [Question |-> IF k = 1 THEN episode_key ELSE "", Variable |-> themes.keys[k]]]

RECURSIVE ThemeFileRows(_)
ThemeFileRows(episode_keys) ==
    IF episode_keys = <<>> THEN <<>>
    ELSE ThemeFileRowsOf(Head(episode_keys), episodes.val[Head(episode_keys)])
         \o ThemeFileRows(Tail(episode_keys))

ThemeExport ==
    /\ pc = "theme_export" /\ error = NoError
    /\ files' = OpenFile("theme_distributions.csv", ThemeFileRows(episodes.keys))
    /\ pc' = PassAfter("theme")
    /\ UNCHANGED <<inputs, contacts, after_passes, error, i, episode, engagement_counts, repeat_participations,
                   demographic_distributions, total_relevant, episodes>>

-----------------------------------------------------------------------------
(* Sample messages *)

\* the (plan, configuration) pairs of the sampling loops, in loop order
RECURSIVE PlanConfigurations(_)
PlanConfigurations(plans) ==
    IF plans = <<>> THEN <<>>
    ELSE [k \in 1..Len(Head(plans).coding_configurations) |->
             [plan |-> Head(plans), cc |-> Head(plans).coding_configurations[k]]]
         \o PlanConfigurations(Tail(plans))

\* code_to_messages[code.string_value] = [] for every code of the scheme
RECURSIVE EmptyPools(_, _)
EmptyPools(codes, pools) ==
    IF codes = <<>> THEN pools
    ELSE EmptyPools(Tail(codes), Put(pools, Head(codes).string_value, <<>>))

\* code_to_messages[code.string_value].append(msg[plan.raw_field]) for each label of msg
RECURSIVE PoolLabels(_, _, _, _)
PoolLabels(labels, text, cc, st) ==
    IF labels = <<>> \/ st.err # NoError THEN st
    ELSE LET code == get_code_with_code_id(cc.code_scheme, Head(labels).CodeID)
         IN  IF code = NoSuchCode THEN [st EXCEPT !.err = KeyError]
             ELSE PoolLabels(Tail(labels), text, cc,
                      [st EXCEPT !.pools.val[code.string_value] = Append(@, text)])

\* the pools of one configuration after the loop over the messages (the list is folded
\* half by half, left to right)
RECURSIVE PoolMessages(_, _, _, _)
PoolMessages(msgs, plan, cc, st) ==
    IF msgs = <<>> \/ st.err # NoError THEN st
    ELSE IF Len(msgs) = 1
    THEN LET msg == Head(msgs)
         IN  IF ~opt_in(msg, CONSENT_WITHDRAWN_KEY, plan) THEN st
             ELSE IF cc.coded_field \notin DOMAIN msg THEN [st EXCEPT !.err = KeyError]
             ELSE PoolLabels(msg[cc.coded_field], msg[plan.raw_field], cc, st)
    ELSE LET half == Len(msgs) \div 2
         IN  PoolMessages(SubSeq(msgs, half + 1, Len(msgs)), plan, cc,
                 PoolMessages(SubSeq(msgs, 1, half), plan, cc, st))

\* the subsets of S with k elements
RECURSIVE KSubsets(_, _)
KSubsets(S, k) ==
    IF k = 0 THEN {{}}
    ELSE {T \cup {x} : <<T, x>> \in {<<U, y>> \in KSubsets(S, k - 1) \X S : y \notin U}}

\* random.sample(population, k) for a population of n elements with k <= n: the outcomes
\* are the selections of k distinct positions.  A selection is held as its positions in
\* ascending order: the order in which random.sample returns them is left out.
random_sample(n, k) ==
    LET positions == [j \in 1..n |-> j]
    IN  IF 2 * k > n
        THEN {SelectSeq(positions, LAMBDA j : j \notin T) : T \in KSubsets(1..n, n - k)}
        ELSE {SelectSeq(positions, LAMBDA j : j \in T) : T \in KSubsets(1..n, k)}

\* a variant that always asks for the full sample
sample_size_fixed(pool) == SampleLimit

\* sample_size = min(100, len(code_to_messages[code_string_value]))
sample_size(pool) == IF Len(pool) < SampleLimit THEN Len(pool) ELSE SampleLimit

\* the pools sampled before random.sample raises, all of them when it does not
Sampled(pools) ==
    LET bad == {k \in 1..Len(pools.keys) :
                   sample_size(pools.val[pools.keys[k]]) > Len(pools.val[pools.keys[k]])}
    IN  IF bad = {} THEN pools.keys
        ELSE SubSeq(pools.keys, 1, (CHOOSE k \in bad : \A h \in bad : k <= h) - 1)

\* the outcomes of the draws for the pools named, pool by pool
RECURSIVE Draws(_, _)
Draws(keys, pools) ==
    IF keys = <<>> THEN {<<>>}
    ELSE LET pool == pools.val[Head(keys)]
         IN  {<<[Code |-> Head(keys), pool |-> pool, positions |-> positions]>> \o rest :
                 positions \in random_sample(Len(pool), sample_size(pool)),
                 rest \in Draws(Tail(keys), pools)}

\* samples.append({...}) for each message drawn, draw by draw
RECURSIVE SampleRows(_, _, _)
SampleRows(draws, plan, cc) ==
    IF draws = <<>> THEN <<>>
    ELSE [k \in 1..Len(Head(draws).positions) |->
             [Episode |-> plan.dataset_name,
              Code_Scheme |-> cc.code_scheme.name,
              Code |-> Head(draws).Code,
              Sample_Message |-> Head(draws).pool[Head(draws).positions[k]]]]
         \o SampleRows(Tail(draws), plan, cc)

\* where the sampling goes after the configuration at position n
AfterConfiguration(n) ==
    IF n > Len(PlanConfigurations(RQA_CODING_PLANS)) THEN "sample_export" ELSE "sample"

\* one round of the loop over the configurations: the pools are filled from the messages,
\* then each is sampled
Sample ==
    /\ pc = "sample" /\ error = NoError
    /\ LET plan == PlanConfigurations(RQA_CODING_PLANS)[sample_cc].plan
           cc == PlanConfigurations(RQA_CODING_PLANS)[sample_cc].cc
           st == PoolMessages(messages, plan, cc,
                     [pools |-> EmptyPools(cc.code_scheme.codes, EmptyDict), err |-> NoError])
           keys == IF st.err = NoError THEN Sampled(st.pools) ELSE <<>>
           failed == st.err # NoError \/ keys # st.pools.keys
       IN  /\ code_to_messages' = st.pools
           /\ \E draws \in Draws(keys, st.pools) :
                 /\ samples' = samples \o SampleRows(draws, plan, cc)
                 /\ drawn' = drawn \o
                       [k \in 1..Len(draws) |->
                           draws[k] @@ [Episode |-> plan.dataset_name,
                                        coded_field |-> cc.coded_field]]
           /\ error' = IF st.err # NoError THEN st.err
                       ELSE IF failed THEN ValueError ELSE NoError
           /\ sample_cc' = IF failed THEN sample_cc ELSE sample_cc + 1
           /\ pc' = IF failed THEN pc ELSE AfterConfiguration(sample_cc + 1)
    /\ UNCHANGED <<inputs, contacts, i, episode, engagement_counts, repeat_participations,
                   demographic_distributions, total_relevant, episodes, files,
                   normal_by_gender>>

SampleExport ==
    /\ pc = "sample_export" /\ error = NoError
    /\ files' = OpenFile("sample_messages.csv", samples)
    /\ pc' = "normal_by_gender"
    /\ UNCHANGED <<inputs, contacts, after_passes, error, i, episode, engagement_counts,
                   repeat_participations, demographic_distributions, total_relevant, episodes>>

-----------------------------------------------------------------------------
(* Normal themes by gender.  The maps and the other graphs drawn between the sampling and *)
(* this block only read the tallies and are left out.                                     *)

ReservedThemes == {"knowledge", "attitude", "behaviour"}

RECURSIVE GCD(_, _)
GCD(a, b) == IF b = 0 THEN a ELSE GCD(b, a % b)

\* count / total for total > 0, as the fraction in lowest terms
Fraction(count, total) == <<"fraction", count \div GCD(count, total), total \div GCD(count, total)>>

\* whether a code of an RQA scheme is graphed as a theme
GraphedTheme(code) ==
    code.code_type = CodeTypes_NORMAL /\ code.string_value \notin ReservedThemes

\* normal_themes[code.string_value] = episode[theme key], code by code
RECURSIVE NormalThemes(_, _, _)
NormalThemes(cells, themes, st) ==
    IF cells = <<>> \/ st.err # NoError THEN st
    ELSE LET code == Head(cells).code
             key == ThemeKey(Head(cells).cc, code)
         IN  IF ~GraphedTheme(code) THEN NormalThemes(Tail(cells), themes, st)
             ELSE IF key \notin DOMAIN themes.val THEN [st EXCEPT !.err = KeyError]
             ELSE NormalThemes(Tail(cells), themes,
                      [st EXCEPT !.normal_themes =
                          Put(@, code.string_value, themes.val[key])])

\* a variant that divides by the theme's own participants
GenderDenominatorOfTheme(themes, demographic_counts, gender_key) ==
    demographic_counts[TotalParticipants]

\* total_relevant_gender
GenderDenominator(themes, demographic_counts, gender_key) ==
    themes.val[TotalRelevantParticipants][gender_key]

\* the entries of one theme, gender code by gender code
RECURSIVE GenderEntries(_, _, _, _)
GenderEntries(gender_codes, theme, themes, st) ==
    IF gender_codes = <<>> \/ st.err # NoError THEN st
    ELSE LET gender_code == Head(gender_codes)
             gender_key == "gender:" \o gender_code.string_value
             demographic_counts == st.normal_themes.val[theme]
         IN  IF gender_code.code_type # CodeTypes_NORMAL
             THEN GenderEntries(Tail(gender_codes), theme, themes, st)
             ELSE IF \/ TotalRelevantParticipants \notin DOMAIN themes.val
                     \/ gender_key \notin DOMAIN demographic_counts
             THEN [st EXCEPT !.err = KeyError]
             ELSE LET total_relevant_gender ==
                          GenderDenominator(themes, demographic_counts, gender_key)
                  IN  GenderEntries(Tail(gender_codes), theme, themes,
                          [st EXCEPT !.normal_by_gender = Append(@,
                              [RQA_Theme |-> theme,
                               Gender |-> gender_code.string_value,
                               Number_of_Participants |-> demographic_counts[gender_key],
                               Fraction_of_Relevant_Participants |->
                                   IF total_relevant_gender = 0 THEN None
                                   ELSE Fraction(demographic_counts[gender_key],
                                                 total_relevant_gender)])])

RECURSIVE ThemeEntries(_, _, _)
ThemeEntries(theme_names, themes, st) ==
    IF theme_names = <<>> \/ st.err # NoError THEN st
    ELSE ThemeEntries(Tail(theme_names), themes,
             GenderEntries(GENDER.codes, Head(theme_names), themes, st))

\* [graphs, err]: the data of the by-gender graphs, plan by plan; a plan without a
\* graphed theme is skipped
RECURSIVE GraphPlans(_, _)
GraphPlans(plans, st) ==
    IF plans = <<>> \/ st.err # NoError THEN st
    ELSE LET plan == Head(plans)
         IN  IF plan.raw_field \notin DOMAIN episodes.val THEN [st EXCEPT !.err = KeyError]
             ELSE LET themes == episodes.val[plan.raw_field]
                      found == NormalThemes(CodeCells(plan.coding_configurations), themes,
                                   [normal_themes |-> EmptyDict, err |-> NoError])
                      made == ThemeEntries(found.normal_themes.keys, themes,
                                  [normal_themes |-> found.normal_themes,
                                   normal_by_gender |-> <<>>, err |-> found.err])
                  IN  IF found.err = NoError /\ found.normal_themes.keys = <<>>
                      THEN GraphPlans(Tail(plans), st)
                      ELSE GraphPlans(Tail(plans),
                               [graphs |-> IF made.err = NoError
                                           THEN Append(st.graphs,
                                                    [raw_field |-> plan.raw_field,
                                                     normal_by_gender |-> made.normal_by_gender])
                                           ELSE st.graphs,
                                err |-> made.err])

NormalThemesByGender ==
    /\ pc = "normal_by_gender" /\ error = NoError
    /\ LET st == GraphPlans(RQA_CODING_PLANS, [graphs |-> <<>>, err |-> NoError])
       IN  /\ normal_by_gender' = st.graphs
           /\ error' = st.err
           /\ pc' = IF st.err = NoError THEN "done" ELSE pc
    /\ UNCHANGED <<inputs, contacts, i, episode, engagement_counts, repeat_participations,
                   demographic_distributions, total_relevant, episodes, files, sample_cc,
                   code_to_messages, samples, drawn>>

-----------------------------------------------------------------------------

\* the state in which the first pass starts, the datasets and the configuration loaded
Start ==
    /\ pc = FirstBlock(pass_order[1])
    /\ error = NoError
    /\ i = 1
    /\ episode = 1
    /\ engagement_counts = EmptyDict
    /\ repeat_participations = <<>>
    /\ demographic_distributions = <<>>
    /\ total_relevant = <<>>
    /\ episodes = EmptyDict
    /\ files = <<>>
    /\ sample_cc = 1
    /\ code_to_messages = EmptyDict
    /\ samples = <<>>
    /\ drawn = <<>>
    /\ normal_by_gender = <<>>
    /\ script = "automated_analysis"
    /\ traced_data = <<>>
    /\ exclusion_list_file_path = NoneValue
    /\ uuid_table = <<>>
    /\ path = 1
    /\ uuids = {}
    /\ county_counts = <<>>
    /\ phone_numbers = {}
    /\ skipped_uuids = {}
    /\ log = <<>>

Init ==
    /\ PipelineConfiguration = ReferenceConfiguration
    /\ pass_order = ReferenceOrder
    /\ messages = ReferenceMessages
    /\ individuals \in SeqsUpTo(Individuals, MaxIndividuals)
    /\ Start

\* the runs that vary the configuration
InitConfigurations ==
    /\ PipelineConfiguration \in Configurations
    /\ pass_order = ReferenceOrder
    /\ messages = ReferenceMessages
    /\ individuals \in SeqsUpTo(ConfiguredIndividuals, MaxIndividuals)
    /\ Start

\* the runs that vary the messages dataset
InitMessages ==
    /\ PipelineConfiguration = ReferenceConfiguration
    /\ pass_order = ReferenceOrder
    /\ messages \in MessageDatasets
    /\ individuals \in IndividualDatasets
    /\ Start

\* the runs that vary the order of the passes
InitAnyOrder ==
    /\ PipelineConfiguration = ReferenceConfiguration
    /\ pass_order \in PassOrders
    /\ messages = ReferenceMessages
    /\ individuals \in SeqsUpTo(ReorderedIndividuals, MaxIndividuals)
    /\ Start

\* the runs of the yes/stop plan
InitYesStop ==
    /\ PipelineConfiguration \in YesStopConfigurations
    /\ pass_order = ReferenceOrder
    /\ messages = YesStopMessages
    /\ individuals \in SeqsUpTo(YesStopIndividuals, MaxIndividuals)
    /\ Start

Next ==
    \/ Engagement
    \/ RepeatInit
    \/ RepeatScan
    \/ RepeatPercent
    \/ RepeatExport
    \/ DemogInit
    \/ DemogScan
    \/ DemogExport
    \/ ThemeInit
    \/ ThemeScan
    \/ ThemeFinalise
    \/ ThemeExport
    \/ Sample
    \/ SampleExport
    \/ NormalThemesByGender

Spec == Init /\ [][Next]_vars

SpecMessages == InitMessages /\ [][Next]_vars

SpecConfigurations == InitConfigurations /\ [][Next]_vars

SpecAnyOrder == InitAnyOrder /\ [][Next]_vars

SpecYesStop == InitYesStop /\ [][Next]_vars

-----------------------------------------------------------------------------
(* export_contact_lists.py and export_weekly_ad_contacts.py.  Each script collects uuids   *)
(* from the traced data files, file by file, converts them to phone numbers through the   *)
(* uuid table and writes the numbers to a CSV.  `pc`, `error` and `files` are the         *)
(* position, the uncaught exception and the files written of the script that is run.      *)

\* {KenyaCodes.KITUI, KenyaCodes.MAKUENI}
TARGET_COUNTIES == {"kitui", "makueni"}

\* the location scheme loaded from code_scheme_file_path
COUNTY ==
    [name |-> "county",
     codes |-> << NormalCode("code-kitui", "kitui"),
                  NormalCode("code-makueni", "makueni"),
                  NormalCode("code-nairobi", "nairobi"),
                  ControlCode("code-NC", "NC", "NC") >>]

\* a county_coded field overwritten with Codes.STOP
StopString == [string |-> Codes_STOP]

\* one record of a traced data file
Contact(uid, consent_withdrawn, county_coded) ==
    [uid |-> uid, consent_withdrawn |-> consent_withdrawn, county_coded |-> county_coded]

\* the records of the model: two participants of the target counties, one of them also
\* seen elsewhere, the other also seen in the other target county, and a participant who
\* withdrew after a first record
ContactRecords ==
    { Contact("uuid-1", Codes_FALSE, Label("code-kitui")),
      Contact("uuid-2", Codes_FALSE, Label("code-makueni")),
      Contact("uuid-2", Codes_FALSE, Label("code-kitui")),
      Contact("uuid-1", Codes_FALSE, Label("code-nairobi")),
      Contact("uuid-3", Codes_FALSE, Label("code-makueni")),
      Contact("uuid-3", Codes_TRUE, StopString) }

\* the files named on the command line: at least one (nargs="+")
TracedDataFiles ==
    SeqsUpTo(SeqsUpTo(ContactRecords, MaxRecords), MaxFiles) \ {<<>>}

\* the uuid tables of the model: every uuid known, one unknown, two uuids of one phone
\* number and one unknown, none known
UuidTables ==
    { ("uuid-1" :> "254700000001") @@ ("uuid-2" :> "254700000002") @@ ("uuid-3" :> "254700000003"),
      ("uuid-1" :> "254700000001") @@ ("uuid-3" :> "254700000003"),
      ("uuid-1" :> "254700000001") @@ ("uuid-2" :> "254700000001"),
      <<>> }

\* json.load of the exclusion list file
ExclusionList == << "uuid-1", "uuid-9" >>

Scripts == {"export_contact_lists", "export_weekly_ad_contacts"}

Report(text, count) == [text |-> text, count |-> count]

\* a variant that counts a uid under a county once per file
RECURSIVE SearchTargetCountiesPerFile(_, _)
SearchTargetCountiesPerFile(data, st) ==
    IF data = <<>> \/ st.err # NoError THEN st
    ELSE LET td == Head(data)
             code == get_code_with_code_id(COUNTY, td.county_coded.CodeID)
             county == code.string_value
         IN  IF td.county_coded = StopString THEN SearchTargetCountiesPerFile(Tail(data), st)
             ELSE IF code = NoSuchCode THEN [st EXCEPT !.err = KeyError]
             ELSE IF county \notin TARGET_COUNTIES
             THEN SearchTargetCountiesPerFile(Tail(data), st)
             ELSE SearchTargetCountiesPerFile(Tail(data),
                      [st EXCEPT
                          !.file_county_counts[county] =
                              IF td.uid \notin st.file_uuids THEN @ + 1 ELSE @,
                          !.county_counts[county] =
                              IF td.uid \notin st.file_uuids THEN @ + 1 ELSE @,
                          !.file_uuids = @ \cup {td.uid},
                          !.uuids = @ \cup {td.uid}])

\* the body of the loop over the records of one file, export_contact_lists.py
RECURSIVE SearchTargetCounties(_, _)
SearchTargetCounties(data, st) ==
    IF data = <<>> \/ st.err # NoError THEN st
    ELSE LET td == Head(data)
             code == get_code_with_code_id(COUNTY, td.county_coded.CodeID)
             county == code.string_value
         IN  IF td.county_coded = StopString THEN SearchTargetCounties(Tail(data), st)
             ELSE IF code = NoSuchCode THEN [st EXCEPT !.err = KeyError]
             ELSE IF county \notin TARGET_COUNTIES THEN SearchTargetCounties(Tail(data), st)
             ELSE SearchTargetCounties(Tail(data),
                      [st EXCEPT
                          !.file_county_counts[county] =
                              IF td.uid \notin st.file_uuids THEN @ + 1 ELSE @,
                          !.file_uuids = @ \cup {td.uid},
                          !.county_counts[county] = IF td.uid \notin st.uuids THEN @ + 1 ELSE @,
                          !.uuids = @ \cup {td.uid}])

\* where a script goes after the file at position n
AfterFile(n, next) == IF n > Len(traced_data) THEN next ELSE "collect"

\* one round of the loop over traced_data_paths, export_contact_lists.py
ContactListsCollect ==
    /\ script = "export_contact_lists" /\ pc = "collect" /\ error = NoError
    /\ LET st == SearchTargetCounties(traced_data[path],
                     [uuids |-> uuids, county_counts |-> county_counts, file_uuids |-> {},
                      file_county_counts |-> [county \in TARGET_COUNTIES |-> 0],
                      err |-> NoError])
       IN  /\ uuids' = st.uuids
           /\ county_counts' = st.county_counts
           /\ error' = st.err
           /\ log' = IF st.err # NoError THEN log
                     ELSE log \o << [text |-> "Found", count |-> Cardinality(st.file_uuids),
                                     counts |-> st.file_county_counts],
                                    [text |-> "Running total", count |-> Cardinality(st.uuids),
                                     counts |-> st.county_counts] >>
           /\ path' = IF st.err = NoError THEN path + 1 ELSE path
           /\ pc' = IF st.err = NoError THEN AfterFile(path + 1, "convert") ELSE pc
    /\ UNCHANGED <<inputs, analysis, files, script, traced_data, exclusion_list_file_path,
                   uuid_table, phone_numbers, skipped_uuids>>

\* the uids of the records of one file whose consent is not withdrawn
Consented(data) ==
    {data[k].uid : k \in {n \in 1..Len(data) : data[n].consent_withdrawn # Codes_TRUE}}

\* one round of the loop over traced_data_paths, export_weekly_ad_contacts.py
WeeklyAdCollect ==
    /\ script = "export_weekly_ad_contacts" /\ pc = "collect" /\ error = NoError
    /\ uuids' = uuids \cup Consented(traced_data[path])
    /\ path' = path + 1
    /\ log' = IF path + 1 > Len(traced_data)
              THEN Append(log, Report("Loaded", Cardinality(uuids'))) ELSE log
    /\ pc' = AfterFile(path + 1,
                 IF exclusion_list_file_path # NoneValue THEN "exclude" ELSE "convert")
    /\ UNCHANGED <<inputs, analysis, error, files, script, traced_data,
                   exclusion_list_file_path, uuid_table, county_counts, phone_numbers,
                   skipped_uuids>>

\* the uuids of the exclusion list are removed from the contacts group
WeeklyAdExclude ==
    /\ script = "export_weekly_ad_contacts" /\ pc = "exclude" /\ error = NoError
    /\ LET exclusion_list == {ExclusionList[k] : k \in 1..Len(ExclusionList)}
       IN  /\ uuids' = uuids \ exclusion_list
           /\ log' = Append(log, Report("Removed", Cardinality(uuids \cap exclusion_list)))
    /\ pc' = "convert"
    /\ UNCHANGED <<inputs, analysis, error, files, script, traced_data,
                   exclusion_list_file_path, uuid_table, path, county_counts, phone_numbers,
                   skipped_uuids>>

\* FirestoreUuidTable.uuid_to_data_batch: the phone number of each uuid that the table
\* knows
uuid_to_data_batch(table, ids) == [uuid \in ids \cap DOMAIN table |-> table[uuid]]

\* a variant of the conversion loop that looks every uuid up without testing for it
ReIdentifyEvery(uuid_phone_number_lut, ids) ==
    IF ids \subseteq DOMAIN uuid_phone_number_lut
    THEN [phone_numbers |-> {"+" \o uuid_phone_number_lut[uuid] : uuid \in ids},
          skipped_uuids |-> {}, err |-> NoError]
    ELSE [phone_numbers |-> {}, skipped_uuids |-> {}, err |-> KeyError]

\* the conversion loop: the uuids of the lookup table give "+<number>", the others are
\* skipped (the loop is over a set and builds sets: the order leaves no trace)
ReIdentify(uuid_phone_number_lut, ids) ==
    [phone_numbers |-> {"+" \o uuid_phone_number_lut[uuid] :
                           uuid \in ids \cap DOMAIN uuid_phone_number_lut},
     skipped_uuids |-> ids \ DOMAIN uuid_phone_number_lut,
     err |-> NoError]

\* what both scripts do with the outcome of the conversion
Converted(st) ==
    /\ phone_numbers' = st.phone_numbers
    /\ skipped_uuids' = st.skipped_uuids
    /\ error' = st.err
    /\ log' = IF st.err # NoError THEN log
              ELSE log \o << Report("Successfully converted", Cardinality(st.phone_numbers)),
                             Report("Unable to re-identify", Cardinality(st.skipped_uuids)) >>
    /\ pc' = IF st.err = NoError THEN "export" ELSE pc

ContactListsConvert ==
    /\ script = "export_contact_lists" /\ pc = "convert" /\ error = NoError
    /\ Converted(ReIdentify(uuid_to_data_batch(uuid_table, uuids), uuids))
    /\ UNCHANGED <<inputs, analysis, files, script, traced_data, exclusion_list_file_path,
                   uuid_table, path, uuids, county_counts>>

WeeklyAdConvert ==
    /\ script = "export_weekly_ad_contacts" /\ pc = "convert" /\ error = NoError
    /\ Converted(ReIdentify(uuid_to_data_batch(uuid_table, uuids), uuids))
    /\ UNCHANGED <<inputs, analysis, files, script, traced_data, exclusion_list_file_path,
                   uuid_table, path, uuids, county_counts>>

\* the rows of the contacts CSV: one per phone number, in the iteration order of the set,
\* which is left out
ContactRows(numbers) == {[URN_Tel |-> n] : n \in numbers}

ContactListsExport ==
    /\ script = "export_contact_lists" /\ pc = "export" /\ error = NoError
    /\ files' = OpenFile("csv_output_file_path", ContactRows(phone_numbers))
    /\ log' = Append(log, Report("Wrote", Cardinality(phone_numbers)))
    /\ pc' = "exported"
    /\ UNCHANGED <<inputs, analysis, error, script, traced_data, exclusion_list_file_path,
                   uuid_table, path, uuids, county_counts, phone_numbers, skipped_uuids>>

WeeklyAdExport ==
    /\ script = "export_weekly_ad_contacts" /\ pc = "export" /\ error = NoError
    /\ files' = OpenFile("csv_output_file_path", ContactRows(phone_numbers))
    /\ log' = Append(log, Report("Wrote", Cardinality(phone_numbers)))
    /\ pc' = "exported"
    /\ UNCHANGED <<inputs, analysis, error, script, traced_data, exclusion_list_file_path,
                   uuid_table, path, uuids, county_counts, phone_numbers, skipped_uuids>>

\* an export script starts: the arguments parsed, the uuid table initialised
InitContacts ==
    /\ script \in Scripts
    /\ traced_data \in TracedDataFiles
    /\ exclusion_list_file_path \in
           IF script = "export_weekly_ad_contacts"
           THEN {NoneValue, "exclusion_list.json"} ELSE {NoneValue}
    /\ uuid_table \in UuidTables
    /\ pc = "collect"
    /\ error = NoError
    /\ path = 1
    /\ uuids = {}
    /\ county_counts = IF script = "export_contact_lists"
                       THEN [county \in TARGET_COUNTIES |-> 0] ELSE <<>>
    /\ phone_numbers = {}
    /\ skipped_uuids = {}
    /\ log = <<>>
    /\ files = <<>>
    /\ PipelineConfiguration = ReferenceConfiguration
    /\ pass_order = ReferenceOrder
    /\ messages = <<>>
    /\ individuals = <<>>
    /\ i = 1
    /\ episode = 1
    /\ engagement_counts = EmptyDict
    /\ repeat_participations = <<>>
    /\ demographic_distributions = <<>>
    /\ total_relevant = <<>>
    /\ episodes = EmptyDict
    /\ sample_cc = 1
    /\ code_to_messages = EmptyDict
    /\ samples = <<>>
    /\ drawn = <<>>
    /\ normal_by_gender = <<>>

NextContacts ==
    \/ ContactListsCollect
    \/ ContactListsConvert
    \/ ContactListsExport
    \/ WeeklyAdCollect
    \/ WeeklyAdExclude
    \/ WeeklyAdConvert
    \/ WeeklyAdExport

SpecContacts == InitContacts /\ [][NextContacts]_vars

-----------------------------------------------------------------------------
(* Properties *)

Range(seq) == {seq[k] : k \in 1..Len(seq)}

AllConfigurations(plans) ==
    UNION {Range(plans[p].coding_configurations) : p \in 1..Len(plans)}

KeyedConfigurations(plans) ==
    {cc \in AllConfigurations(plans) : cc.analysis_file_key # NoneValue}

Abs(x) == IF x < 0 THEN -x ELSE x

\* the individuals whose consent is not withdrawn
Consenting == {n \in 1..Len(individuals) : individuals[n].consent_withdrawn = "false"}

\* the number of RQA plans whose raw field individual n has
PlansWithRawField(n) ==
    Cardinality({p \in 1..Len(RQA_CODING_PLANS) :
                    RQA_CODING_PLANS[p].raw_field \in DOMAIN individuals[n]})

\* the code individual n is assigned by a single-select configuration
AssignedCode(n, cc) ==
    get_code_with_code_id(cc.code_scheme, individuals[n][cc.coded_field].CodeID)

\* the (configuration, position) pairs of individual n's labels in RQA plan p, each
\* with its code
LabelsOf(n, p) ==
    {[cc |-> cc, at |-> j,
      code |-> get_code_with_code_id(cc.code_scheme, individuals[n][cc.coded_field][j].CodeID)] :
        <<cc, j>> \in UNION {{<<cc, j>> : j \in 1..Len(individuals[n][cc.coded_field])} :
                                cc \in Range(RQA_CODING_PLANS[p].coding_configurations)}}

RepeatScanFinished == pc \notin {"engagement", "repeat_init", "repeat_scan"}

DemogPrepopulated ==
    pc \notin {"engagement", "repeat_init", "repeat_scan", "repeat_percent", "repeat_export",
               "demog_init"}

DemogScanFinished == DemogPrepopulated /\ pc # "demog_scan"

\* the blocks that follow the aggregation passes
AfterPasses == {"sample", "sample_export", "normal_by_gender", "done"}

\* the blocks in which every episode's rows are final (in the reference order of the passes)
ThemesFinal == {"theme_export"} \cup AfterPasses

InThemePass == pc \in {"theme_init", "theme_scan", "theme_finalise"} \cup ThemesFinal

\* the rows of episode p exist
EpisodePrepopulated(p) ==
    /\ InThemePass
    /\ \/ p < episode
       \/ pc \in ThemesFinal
       \/ p = episode /\ pc \in {"theme_scan", "theme_finalise"}

\* every individual has been scanned for episode p
EpisodeScanned(p) ==
    /\ InThemePass
    /\ \/ p < episode
       \/ pc \in ThemesFinal
       \/ p = episode /\ pc = "theme_finalise"

\* the percentages of episode p have been set
EpisodeFinalised(p) == InThemePass /\ (p < episode \/ pc \in ThemesFinal)

ThemesOf(p) == episodes.val[RQA_CODING_PLANS[p].raw_field].val

FileRows(name) ==
    LET at == {f \in 1..Len(files) : files[f].name = name}
    IN  IF at = {} THEN <<>> ELSE files[CHOOSE f \in at : TRUE].rows

FileOpened(name) == \E f \in 1..Len(files) : files[f].name = name

\* t tenths is a nearest tenth of count / total * 100
IsNearestTenth(t, count, total) == 2 * Abs(t * total - 1000 * count) <= total

IsRoundedPercentage(cell, count, total) ==
    /\ Len(cell) = 2
    /\ cell[1] = "pct"
    /\ IsNearestTenth(cell[2], count, total)

\* C1: once the demographic scan has finished, the code counts of every exported DEMOG
\* configuration sum to the number of individuals whose consent is not withdrawn.
C1_DemographicCountsSumToPopulation ==
    DemogScanFinished =>
        \A cc \in KeyedConfigurations(DEMOG_CODING_PLANS) :
            LET counts == demographic_distributions[cc.analysis_file_key]
            IN  SumOver(counts, DOMAIN counts) = Cardinality(Consenting)

\* a finished scan over three individuals, one withdrawn and one with a control code
C1_Witness ==
    /\ DemogScanFinished
    /\ Len(individuals) = 3
    /\ Cardinality(Consenting) = 2
    /\ demographic_distributions["gender"]["code-NC"] = 1

\* individual n has a NORMAL code in one of the configurations of RQA plan p
HasNormalTheme(n, p) == \E l \in LabelsOf(n, p) : l.code.code_type = "Normal"

\* C2: once an episode is scanned, its 'Total Relevant Participants' row counts each
\* non-withdrawn individual with at least one NORMAL code once, whatever the number of
\* its NORMAL themes.
C2_TotalRelevantCountsDistinctIndividuals ==
    \A p \in 1..Len(RQA_CODING_PLANS) :
        EpisodeScanned(p) =>
            ThemesOf(p)["Total Relevant Participants"]["Total Participants"]
                = Cardinality({n \in Consenting : HasNormalTheme(n, p)})

\* an individual with two NORMAL themes: each theme row has 1 and the total row has 1
C2_Witness ==
    /\ pc = "done"
    /\ ThemesOf(1)["rqa_s01e01_a"]["Total Participants"] = 1
    /\ ThemesOf(1)["rqa_s01e01_b"]["Total Participants"] = 1
    /\ ThemesOf(1)["Total Relevant Participants"]["Total Participants"] = 1
    /\ \E n \in Consenting :
          Cardinality({l.code.code_id : l \in {x \in LabelsOf(n, 1) : x.code.code_type = "Normal"}}) = 2

\* C3: once the repeat-participation scan has finished, bucket k holds the non-withdrawn
\* individuals that have the raw field of exactly k plans, and the buckets sum to the
\* number of individuals whose consent is not withdrawn.
C3_RepeatBucketsPartitionConsenting ==
    RepeatScanFinished =>
        /\ DOMAIN repeat_participations = 1..Len(RQA_CODING_PLANS)
        /\ \A k \in DOMAIN repeat_participations :
              repeat_participations[k].Number_of_Individuals
                  = Cardinality({n \in Consenting : PlansWithRawField(n) = k})
        /\ SumOver([k \in DOMAIN repeat_participations |->
                       repeat_participations[k].Number_of_Individuals],
                   DOMAIN repeat_participations) = Cardinality(Consenting)

\* two individuals, one in both plans and one in one plan: one individual (50.0%) each
C3_Witness ==
    /\ pc = "done"
    /\ Len(individuals) = 2
    /\ FileRows("repeat_participations.csv") =
          << [Episodes_Participated_In |-> 1, Number_of_Individuals |-> 1,
              Pct_of_Individuals |-> Pct(500)],
             [Episodes_Participated_In |-> 2, Number_of_Individuals |-> 1,
              Pct_of_Individuals |-> Pct(500)] >>

\* the demographic rows written so far, each with the configuration and code it is for
DemogCellsWritten ==
    LET cells == SelectSeq(CodeCells(Keyed(ConfigurationsOf(DEMOG_CODING_PLANS))),
                           LAMBDA cell : cell.code.control_code # "STOP")
        rows == FileRows("demographic_distributions.csv")
    IN  {[row |-> rows[r], cc |-> cells[r].cc, code |-> cells[r].code] : r \in 1..Len(rows)}

\* C4: a zero denominator of a percentage does not end the run, and the cell holds the
\* not-applicable marker: the repeat-participation '% of Individuals' when nobody's
\* consent stands, a demographic 'Percent' when no assignment of the scheme is NORMAL.
C4_ZeroDenominatorNotFatal ==
    /\ error # ZeroDivisionError
    /\ (pc \notin {"engagement", "repeat_init", "repeat_scan", "repeat_percent"}
            /\ Consenting = {})
           => \A k \in DOMAIN repeat_participations :
                 repeat_participations[k].Pct_of_Individuals = Dash
    /\ \A cell \in DemogCellsWritten :
          (cell.code.code_type = "Normal" /\ total_relevant[cell.cc.analysis_file_key] = 0)
              => cell.row.Percent = Dash

\* the (count slot, percentage slot) pairs of a survey-counts row
SurveySlotPairs ==
    {<<"Total Participants", "Total Participants %">>}
    \cup {<<cc.analysis_file_key \o ":" \o code.string_value,
            cc.analysis_file_key \o ":" \o code.string_value \o " %">> :
            <<cc, code>> \in UNION {{<<cc, code>> : code \in
                                        {c \in Range(cc.code_scheme.codes) : c.control_code # "STOP"}} :
                                    cc \in KeyedConfigurations(SURVEY_CODING_PLANS)}}

\* the rows of episode p that set_survey_percentages is applied to
FinalisedRowKeys(p) ==
    {"Total Relevant Participants"}
    \cup {cc.analysis_file_key \o code.string_value :
            <<cc, code>> \in UNION {{<<cc, code>> : code \in
                                        {c \in Range(cc.code_scheme.codes) : c.code_type = "Normal"}} :
                                    cc \in Range(RQA_CODING_PLANS[p].coding_configurations)}}

\* C5: after set_survey_percentages(row, total_row), a percentage slot of row is the
\* unavailable marker exactly when the matching count of the total row is 0, and is
\* otherwise the row's count over the total row's count, as a percentage rounded to one
\* decimal place.
C5_SurveyPercentages ==
    \A p \in 1..Len(RQA_CODING_PLANS) :
        EpisodeFinalised(p) =>
            \A key \in FinalisedRowKeys(p) : \A slot \in SurveySlotPairs :
                LET row == ThemesOf(p)[key]
                    total_row == ThemesOf(p)["Total Relevant Participants"]
                IN  IF total_row[slot[1]] = 0
                    THEN row[slot[2]] = Dash
                    ELSE IsRoundedPercentage(row[slot[2]], row[slot[1]], total_row[slot[1]])

\* three relevant individuals, two of them with theme a: 66.7, and no female among them
C5_Witness ==
    /\ EpisodeFinalised(1)
    /\ ThemesOf(1)["Total Relevant Participants"]["Total Participants"] = 3
    /\ ThemesOf(1)["rqa_s01e01_a"]["Total Participants"] = 2
    /\ ThemesOf(1)["rqa_s01e01_a"]["Total Participants %"] = Pct(667)
    /\ ThemesOf(1)["rqa_s01e01_a"]["gender:female %"] = Dash

\* the number of individuals whose records the scan of episode p has gone through
Scanned(p) ==
    IF EpisodeScanned(p) THEN Len(individuals)
    ELSE IF EpisodePrepopulated(p) THEN i - 1
    ELSE 0

\* the labels of the first m individuals that the theme scan counts in the row `key`
\* of episode p when it skips a label as Skips says
CountedLabels(p, m, key, Skips(_)) ==
    UNION {{<<n, l>> : l \in {x \in LabelsOf(n, p) :
                                /\ ~Skips(x.code)
                                /\ x.cc.analysis_file_key \o x.code.string_value = key}} :
           n \in {k \in 1..m : individuals[k].consent_withdrawn # "true"}}

IsControlCode(code) == code.code_type = "Control"
IsStopCode(code) == code.control_code = "STOP"

\* the first m individuals that are relevant participants of episode p
RelevantAmong(p, m) ==
    {n \in 1..m : individuals[n].consent_withdrawn # "true" /\ HasNormalTheme(n, p)}

\* the survey count slot that a single-select answer of individual n goes to, if any
AnsweredSlots(n) ==
    {cc.analysis_file_key \o ":" \o AssignedCode(n, cc).string_value :
        cc \in {c \in KeyedConfigurations(SURVEY_CODING_PLANS) :
                    AssignedCode(n, c).control_code # "STOP"}}

\* C6 as stated: a label whose code is a control code, STOP or another, adds to no theme
\* row, so a theme row counts the labels of its key whose code is no control code.
C6_ControlCodeLabelsSkipped ==
    error = NoError =>
        \A p \in 1..Len(RQA_CODING_PLANS) :
            EpisodePrepopulated(p) =>
                \A key \in DOMAIN ThemesOf(p) \ {"Total Relevant Participants"} :
                    ThemesOf(p)[key]["Total Participants"]
                        = Cardinality(CountedLabels(p, Scanned(p), key, IsControlCode))

\* C6 as amended: a label whose code is a STOP code adds to no row, neither to 'Total
\* Participants' nor to a survey slot, and does not make its individual relevant; a label
\* with any other code, another control code included, adds 1 to its theme row and the
\* individual's survey answers to that row; only a NORMAL code makes the individual
\* relevant.
C6_StopLabelsSkipped ==
    error = NoError =>
        \A p \in 1..Len(RQA_CODING_PLANS) :
            EpisodePrepopulated(p) =>
                /\ \A key \in DOMAIN ThemesOf(p) \ {"Total Relevant Participants"} :
                      LET counted == CountedLabels(p, Scanned(p), key, IsStopCode)
                      IN  /\ ThemesOf(p)[key]["Total Participants"] = Cardinality(counted)
                          /\ \A slot \in SurveySlotPairs \ {<<"Total Participants", "Total Participants %">>} :
                                ThemesOf(p)[key][slot[1]]
                                    = Cardinality({c \in counted : slot[1] \in AnsweredSlots(c[1])})
                /\ ThemesOf(p)["Total Relevant Participants"]["Total Participants"]
                      = Cardinality(RelevantAmong(p, Scanned(p)))

\* a STOP label beside a NORMAL one and a label with another control code, both of
\* individuals whose consent stands: the STOP label is counted nowhere, the other is
C6_Witness ==
    /\ pc = "done"
    /\ \E n \in Consenting : \E l \in LabelsOf(n, 1) : l.code.control_code = "STOP"
    /\ \E n \in Consenting : \E l \in LabelsOf(n, 1) : l.code.code_id = "code-NR"
    /\ ThemesOf(1)["rqa_s01e01_NR"]["Total Participants"] = 1
    /\ ThemesOf(1)["rqa_s01e01_NR"]["gender:male"] = 1
    /\ ThemesOf(1)["rqa_s01e01_b"]["Total Participants"] = 1
    /\ ThemesOf(1)["Total Relevant Participants"]["Total Participants"] = 1

PercentageSlots == {slot[2] : slot \in SurveySlotPairs}

\* the theme keys of the NORMAL codes of all episodes
NormalThemeKeys == UNION {FinalisedRowKeys(p) : p \in 1..Len(RQA_CODING_PLANS)}

\* C7 as stated: no row written to theme_distributions.csv has an unset percentage slot.
C7_NoThemeRowLeftUnset ==
    \A row \in Range(FileRows("theme_distributions.csv")) :
        \A slot \in PercentageSlots : row[slot] # None

\* C7 as amended: in theme_distributions.csv the 'Total Relevant Participants' rows and
\* the rows of NORMAL codes have every percentage slot set, and the rows of the other
\* codes (control codes that are not STOP) have every percentage slot unset.
C7_NormalThemeRowsFinalised ==
    \A row \in Range(FileRows("theme_distributions.csv")) :
        IF row.Variable \in NormalThemeKeys
        THEN \A slot \in PercentageSlots : row[slot] # None
        ELSE \A slot \in PercentageSlots : row[slot] = None

\* the file holds a row of a control code that counted an individual and has no percentage
C7_Witness ==
    /\ FileOpened("theme_distributions.csv")
    /\ \E row \in Range(FileRows("theme_distributions.csv")) :
          /\ row.Variable = "rqa_s01e01_NR"
          /\ row["Total Participants"] = 1
          /\ row["Total Participants %"] = None
    /\ \E row \in Range(FileRows("theme_distributions.csv")) :
          /\ row.Variable = "rqa_s01e01_a"
          /\ row["Total Participants %"] = Pct(1000)

CodeIdsWhere(code_scheme, Keeps(_)) ==
    {code.code_id : code \in {c \in Range(code_scheme.codes) : Keeps(c)}}

IsNormalCode(code) == code.code_type = "Normal"
IsNotStopCode(code) == code.control_code # "STOP"

\* nothing has been scanned by the demographic pass yet
DemogNothingScanned == pc \in {"demog_scan", "demog_export"} /\ i = 1 /\ error = NoError

DemogFileComplete ==
    /\ FileOpened("demographic_distributions.csv")
    /\ ~(pc = "demog_export" /\ error # NoError)

\* C8 as stated: the buckets of an exported scheme are its NORMAL codes, each 0 before
\* the scan, and demographic_distributions.csv has a row for each of them and for no
\* control code.
C8_BucketsForNormalCodesOnly ==
    /\ DemogPrepopulated =>
          \A cc \in KeyedConfigurations(DEMOG_CODING_PLANS) :
              DOMAIN demographic_distributions[cc.analysis_file_key]
                  = CodeIdsWhere(cc.code_scheme, IsNormalCode)
    /\ \A cell \in DemogCellsWritten : cell.code.code_type = "Normal"

\* C8 as amended: the buckets of an exported scheme are its codes that are not STOP
\* codes, NORMAL or control, each 0 before the scan; demographic_distributions.csv has
\* one row for each of them, in scheme order, and none for a STOP code.
C8_BucketsForAllButStopCodes ==
    /\ DemogPrepopulated =>
          /\ DOMAIN demographic_distributions
                = {cc.analysis_file_key : cc \in KeyedConfigurations(DEMOG_CODING_PLANS)}
          /\ \A cc \in KeyedConfigurations(DEMOG_CODING_PLANS) :
                DOMAIN demographic_distributions[cc.analysis_file_key]
                    = CodeIdsWhere(cc.code_scheme, IsNotStopCode)
    /\ DemogNothingScanned =>
          \A key \in DOMAIN demographic_distributions :
              \A code_id \in DOMAIN demographic_distributions[key] :
                  demographic_distributions[key][code_id] = 0
    /\ DemogFileComplete =>
          [r \in 1..Len(FileRows("demographic_distributions.csv")) |->
              FileRows("demographic_distributions.csv")[r].Code]
          = << "male", "female", "NC", "18 to 35", "NC" >>

\* the exported file has the row of a control code, with an individual counted in it
C8_Witness ==
    /\ pc = "done"
    /\ \E cell \in DemogCellsWritten :
          /\ cell.cc.analysis_file_key = "gender"
          /\ cell.code.code_type = "Control"
          /\ cell.row.Participants_with_Opt_Ins = 1
    /\ \E cell \in DemogCellsWritten :
          /\ cell.code.code_type = "Normal"
          /\ cell.row.Participants_with_Opt_Ins = 0

\* C9: once the demographic scan has finished, the denominator of a scheme is the number
\* of non-withdrawn individuals whose code in it is NORMAL; a row of a NORMAL code holds
\* its bucket and the bucket over the denominator as a percentage rounded to one
\* decimal place, and the Percent of a row of any other code is blank.
C9_DemographicDenominatorAndPercent ==
    /\ DemogScanFinished =>
          \A cc \in KeyedConfigurations(DEMOG_CODING_PLANS) :
              total_relevant[cc.analysis_file_key]
                  = Cardinality({n \in 1..Len(individuals) :
                                    /\ individuals[n].consent_withdrawn # "true"
                                    /\ AssignedCode(n, cc).code_type = "Normal"})
    /\ \A cell \in DemogCellsWritten :
          LET bucket == Cardinality({n \in 1..Len(individuals) :
                                        /\ individuals[n].consent_withdrawn # "true"
                                        /\ AssignedCode(n, cell.cc) = cell.code})
          IN  /\ cell.row.Code = cell.code.string_value
              /\ cell.row.Participants_with_Opt_Ins = bucket
              /\ IF cell.code.code_type = "Normal"
                 THEN IsRoundedPercentage(cell.row.Percent, bucket,
                                          total_relevant[cell.cc.analysis_file_key])
                 ELSE cell.row.Percent = Blank

\* three individuals whose consent stands, one with a control code: the denominator is 2
\* and each NORMAL code has 50.0
C9_Witness ==
    /\ pc = "done"
    /\ Cardinality(Consenting) = 3
    /\ total_relevant["gender"] = 2
    /\ \E cell \in DemogCellsWritten :
          cell.code.code_id = "code-male" /\ cell.row.Percent = Pct(500)
    /\ \E cell \in DemogCellsWritten :
          cell.code.code_id = "code-NC" /\ cell.row.Percent = Blank
                                        /\ cell.row.Participants_with_Opt_Ins = 1

\* an individual whose consent is not withdrawn and who has no raw field of any plan
NonParticipants == {n \in Consenting : PlansWithRawField(n) = 0}

\* C10: with such an individual in the dataset the run ends in the repeat-participation
\* scan with the failed assertion: no file but engagement_counts.csv is ever opened, and
\* the buckets count only the individuals before it that took part.
C10_NonParticipantAbortsRun ==
    NonParticipants # {} =>
        /\ pc \in {"engagement", "repeat_init", "repeat_scan"}
        /\ \A f \in 1..Len(files) : files[f].name = "engagement_counts.csv"
        /\ error \in {NoError, AssertionError}
        /\ error = AssertionError => i \in NonParticipants
        /\ ~ENABLED Next => error = AssertionError
        /\ pc = "repeat_scan" =>
              /\ \A n \in NonParticipants : i <= n
              /\ SumOver([k \in DOMAIN repeat_participations |->
                             repeat_participations[k].Number_of_Individuals],
                         DOMAIN repeat_participations)
                    = Cardinality({n \in Consenting : n < i /\ PlansWithRawField(n) > 0})

\* the run has stopped at the third individual, after counting the two before it
C10_Witness ==
    /\ error = AssertionError
    /\ pc = "repeat_scan"
    /\ i = 3
    /\ NonParticipants = {3}
    /\ repeat_participations[1].Number_of_Individuals = 1
    /\ repeat_participations[2].Number_of_Individuals = 1
    /\ Len(files) = 1

-----------------------------------------------------------------------------

\* the DEMOG configurations with an analysis key that are multi-select
MultipleDemographics ==
    {cc \in KeyedConfigurations(DEMOG_CODING_PLANS) : cc.coding_mode = "MULTIPLE"}

\* the run has stopped, at its end or at an exception
Stopped == ~ENABLED Next

\* C11: with a multi-select DEMOG configuration that has an analysis key, the run ends
\* with the configuration error of the demographic pass (the AssertionError of its scan),
\* also when no individual's consent stands.
C11_MultipleDemographicsFatalWithoutConsenting ==
    (MultipleDemographics # {} /\ Consenting = {} /\ Stopped)
        => (error = AssertionError /\ pc = "demog_scan")

-----------------------------------------------------------------------------

\* the RQA plans with a single-select configuration
SingleSelectPlans ==
    {p \in 1..Len(RQA_CODING_PLANS) :
        \E cc \in Range(RQA_CODING_PLANS[p].coding_configurations) : cc.coding_mode = "SINGLE"}

\* the theme pass is at episode p or past it
EpisodeReached(p) == InThemePass /\ (episode > p \/ (episode = p /\ pc # "theme_init"))

\* C12: when an RQA plan has a single-select configuration, the theme pass never enters
\* the scan of that plan's episode nor anything after it, theme_distributions.csv is never
\* written, and the error that stops the pass there is the AssertionError of the
\* pre-population, raised with no individual counted in a row of the episode.
C12_SingleSelectThemesFailFast ==
    \A p \in SingleSelectPlans :
        /\ ~EpisodeReached(p)
        /\ pc \notin ThemesFinal
        /\ ~FileOpened("theme_distributions.csv")
        /\ (pc = "theme_init" /\ episode = p /\ error # NoError) =>
              /\ error = AssertionError
              /\ i = 1
              /\ \A theme \in DOMAIN ThemesOf(p) : ThemesOf(p)[theme]["Total Participants"] = 0

\* a run stopped at the second episode, the first one scanned with an individual counted
C12_Witness ==
    /\ SingleSelectPlans = {2}
    /\ pc = "theme_init" /\ episode = 2 /\ error = AssertionError
    /\ ThemesOf(1)["Total Relevant Participants"]["Total Participants"] > 0
    /\ "rqa_s01e02_c" \in DOMAIN ThemesOf(2)
    /\ FileOpened("demographic_distributions.csv")

-----------------------------------------------------------------------------

\* whether a code id is the id of a code of the scheme
Resolves(code_scheme, code_id) ==
    \E k \in 1..Len(code_scheme.codes) : code_scheme.codes[k].code_id = code_id

\* the individuals the demographic scan has gone past
DemogScanned ==
    IF pc = "demog_scan" THEN 1..(i - 1)
    ELSE IF DemogScanFinished THEN 1..Len(individuals) ELSE {}

\* the individuals the theme scan of episode p has gone past
ThemeScanned(p) ==
    IF pc = "theme_scan" /\ episode = p THEN 1..(i - 1)
    ELSE IF EpisodeScanned(p) THEN 1..Len(individuals) ELSE {}

\* the configurations the sampling has gone past
SampledConfigurations ==
    IF pc = "sample" THEN 1..(sample_cc - 1)
    ELSE IF pc \in AfterPasses THEN 1..Len(PlanConfigurations(RQA_CODING_PLANS)) ELSE {}

\* the record the pass is stopped at has a code id that is in no scheme
StoppedAtUnresolved ==
    \/ /\ pc = "demog_scan"
       /\ \E cc \in KeyedConfigurations(DEMOG_CODING_PLANS) :
             ~Resolves(cc.code_scheme, individuals[i][cc.coded_field].CodeID)
    \/ /\ pc = "theme_scan"
       /\ \E cc \in Range(RQA_CODING_PLANS[episode].coding_configurations) :
             \E label \in Range(individuals[i][cc.coded_field]) :
                ~Resolves(cc.code_scheme, label.CodeID)
    \/ /\ pc = "sample"
       /\ \E msg \in Range(messages) :
             LET at == PlanConfigurations(RQA_CODING_PLANS)[sample_cc]
             IN  /\ msg.consent_withdrawn = "false" /\ at.plan.raw_field \in DOMAIN msg
                 /\ \E label \in Range(msg[at.cc.coded_field]) :
                       ~Resolves(at.cc.code_scheme, label.CodeID)

\* C13: the demographic scan, the theme scan and the sampling never go past a record
\* they read (an individual whose consent is not withdrawn, a message that opted in to
\* the plan) with a code id that is not in the governing scheme; the run stops at that
\* record with a KeyError, and so never ends without an error.
C13_UnresolvedCodeAbortsPass ==
    /\ \A n \in DemogScanned \cap Consenting :
          \A cc \in KeyedConfigurations(DEMOG_CODING_PLANS) :
             Resolves(cc.code_scheme, individuals[n][cc.coded_field].CodeID)
    /\ \A p \in 1..Len(RQA_CODING_PLANS) : \A n \in ThemeScanned(p) \cap Consenting :
          \A cc \in Range(RQA_CODING_PLANS[p].coding_configurations) :
             \A label \in Range(individuals[n][cc.coded_field]) :
                Resolves(cc.code_scheme, label.CodeID)
    /\ \A k \in SampledConfigurations :
          LET at == PlanConfigurations(RQA_CODING_PLANS)[k]
          IN  \A msg \in Range(messages) :
                 (msg.consent_withdrawn = "false" /\ at.plan.raw_field \in DOMAIN msg) =>
                    \A label \in Range(msg[at.cc.coded_field]) :
                       Resolves(at.cc.code_scheme, label.CodeID)
    /\ (error # NoError /\ StoppedAtUnresolved
           /\ (pc = "sample" \/ individuals[i].consent_withdrawn = "false"))
          => error = "KeyError"

\* the sampling stopped at a message with an unknown code id, after the scans skipped a
\* withdrawn individual whose code ids are unknown
C13_Witness ==
    /\ pc = "sample" /\ error = "KeyError"
    /\ StoppedAtUnresolved
    /\ \E n \in 1..Len(individuals) :
          /\ individuals[n].consent_withdrawn = "true"
          /\ individuals[n].gender_coded.CodeID = "code-unknown"
    /\ FileOpened("theme_distributions.csv")
    /\ ~FileOpened("sample_messages.csv")

\* the demographic scan stopped at an individual with an unknown demographic code id
C13_WitnessDemographic ==
    /\ pc = "demog_scan" /\ error = "KeyError" /\ StoppedAtUnresolved

\* the theme scan stopped at an individual with an unknown label
C13_WitnessTheme ==
    /\ pc = "theme_scan" /\ error = "KeyError" /\ StoppedAtUnresolved /\ episode = 2

-----------------------------------------------------------------------------

\* the assignments of the code by the opted-in messages of the plan, as (message, label)
\* positions
Assignments(at, code) ==
    UNION {{<<m, l>> : l \in {h \in 1..Len(messages[m][at.cc.coded_field]) :
                                 get_code_with_code_id(at.cc.code_scheme,
                                     messages[m][at.cc.coded_field][h].CodeID).string_value
                                 = code.string_value}} :
           m \in {n \in 1..Len(messages) : opt_in(messages[n], CONSENT_WITHDRAWN_KEY, at.plan)}}

\* the rows of sample_messages.csv of one code of one configuration
SampleRowsOf(at, code) ==
    {k \in 1..Len(FileRows("sample_messages.csv")) :
        LET row == FileRows("sample_messages.csv")[k]
        IN  /\ row.Episode = at.plan.dataset_name
            /\ row.Code_Scheme = at.cc.code_scheme.name
            /\ row.Code = code.string_value}

Min(a, b) == IF a < b THEN a ELSE b

\* C14: sample_messages.csv has min(100, n) rows for each code of each configuration of
\* each plan, n the number of assignments of the code by the opted-in messages of the
\* plan; each draw is of distinct positions of its pool; a pool of fewer than 100
\* messages is no error (random.sample never raises ValueError).
C14_SampleSizeIsMinOfLimitAndPool ==
    /\ error # ValueError
    /\ \A d \in Range(drawn) :
          /\ Range(d.positions) \subseteq 1..Len(d.pool)
          /\ Cardinality(Range(d.positions)) = Len(d.positions)
          /\ Len(d.positions) = Min(SampleLimit, Len(d.pool))
    /\ FileOpened("sample_messages.csv") =>
          /\ Len(drawn) = Cardinality(
                 UNION {{<<k, c>> : c \in 1..Len(PlanConfigurations(RQA_CODING_PLANS)[k]
                                                    .cc.code_scheme.codes)} :
                        k \in 1..Len(PlanConfigurations(RQA_CODING_PLANS))})
          /\ \A k \in 1..Len(PlanConfigurations(RQA_CODING_PLANS)) :
                LET at == PlanConfigurations(RQA_CODING_PLANS)[k]
                IN  \A code \in Range(at.cc.code_scheme.codes) :
                       Cardinality(SampleRowsOf(at, code))
                           = Min(SampleLimit, Cardinality(Assignments(at, code)))

\* the file is written with 100 rows for a code that 101 messages were given, one row for
\* a code that one message was given and none for a code that no message was given
C14_Witness ==
    /\ FileOpened("sample_messages.csv")
    /\ LET at == PlanConfigurations(RQA_CODING_PLANS)[1]
       IN  /\ Cardinality(Assignments(at, at.cc.code_scheme.codes[1])) = SampleLimit + 1
           /\ Cardinality(SampleRowsOf(at, at.cc.code_scheme.codes[1])) = SampleLimit
           /\ Cardinality(Assignments(at, at.cc.code_scheme.codes[2])) = 1
           /\ Cardinality(SampleRowsOf(at, at.cc.code_scheme.codes[2])) = 1
    /\ \E k \in 1..Len(PlanConfigurations(RQA_CODING_PLANS)) :
          LET at == PlanConfigurations(RQA_CODING_PLANS)[k]
          IN  \E code \in Range(at.cc.code_scheme.codes) :
                 Assignments(at, code) = {} /\ SampleRowsOf(at, code) = {}

-----------------------------------------------------------------------------

\* C15: engagement_counts.csv has one row per RQA plan, in catalog order, then a row
\* 'Total'; "Total Messages" is "-" in the row of every plan and the number of messages
\* loaded in the row 'Total'.
C15_EngagementRowsAndMessageTotal ==
    FileOpened("engagement_counts.csv") =>
        LET rows == FileRows("engagement_counts.csv")
            plans == Len(RQA_CODING_PLANS)
        IN  /\ Len(rows) = plans + 1
            /\ \A p \in 1..plans :
                  /\ rows[p].Episode = RQA_CODING_PLANS[p].dataset_name
                  /\ rows[p].Total_Messages = Dash
            /\ rows[plans + 1].Episode = "Total"
            /\ rows[plans + 1].Total_Messages = Count(Len(messages))

\* the file is written for a dataset of more than a hundred messages, not all of them
\* opted in
C15_Witness ==
    /\ FileOpened("engagement_counts.csv")
    /\ Len(messages) > SampleLimit
    /\ LET total == FileRows("engagement_counts.csv")[Len(RQA_CODING_PLANS) + 1]
       IN  /\ total.Total_Messages = Count(Len(messages))
           /\ total.Total_Messages_with_Opt_Ins # total.Total_Messages
    /\ FileRows("engagement_counts.csv")[1].Total_Messages_with_Opt_Ins # Count(0)

-----------------------------------------------------------------------------

\* the keys of the tallies of the three passes
TallyKeys ==
    [repeat_participations |-> DOMAIN repeat_participations,
     demographic_distributions |->
         [key \in DOMAIN demographic_distributions |-> DOMAIN demographic_distributions[key]],
     total_relevant |-> DOMAIN total_relevant,
     episodes |->
         [raw_field \in DOMAIN episodes.val |->
             [keys |-> episodes.val[raw_field].keys,
              slots |-> [theme \in DOMAIN episodes.val[raw_field].val |->
                            DOMAIN episodes.val[raw_field].val[theme]]]]]

\* the slots of a row of survey counts that hold a count
SurveyCountKeys ==
    {TotalParticipants} \cup {CountKey(cell.cc, cell.code) : cell \in Range(SurveyCells)}

\* every count of the tally is 0 when the scan is at its first record
ZeroBeforeFirstRecord ==
    /\ (pc = "repeat_scan" /\ i = 1 /\ error = NoError) =>
          /\ DOMAIN repeat_participations = 1..Len(RQA_CODING_PLANS)
          /\ \A k \in DOMAIN repeat_participations :
                repeat_participations[k].Number_of_Individuals = 0
    /\ (pc = "demog_scan" /\ i = 1 /\ error = NoError) =>
          /\ DOMAIN demographic_distributions
                 = {cc.analysis_file_key : cc \in KeyedConfigurations(DEMOG_CODING_PLANS)}
          /\ \A key \in DOMAIN demographic_distributions :
                /\ total_relevant[key] = 0
                /\ \A code_id \in DOMAIN demographic_distributions[key] :
                      demographic_distributions[key][code_id] = 0
    /\ (pc = "theme_scan" /\ i = 1 /\ error = NoError) =>
          /\ TotalRelevantParticipants \in DOMAIN ThemesOf(episode)
          /\ \A theme \in DOMAIN ThemesOf(episode) :
                /\ SurveyCountKeys \subseteq DOMAIN ThemesOf(episode)[theme]
                /\ \A slot \in SurveyCountKeys : ThemesOf(episode)[theme][slot] = 0

\* the number of assignments of individual i that the demographic scan counts under
\* (key, code_id)
DemogAssignments(key, code_id) ==
    LET ccs == Keyed(ConfigurationsOf(DEMOG_CODING_PLANS))
    IN  IF individuals[i].consent_withdrawn = "true" THEN 0
        ELSE Cardinality({c \in 1..Len(ccs) :
                 /\ ccs[c].analysis_file_key = key
                 /\ individuals[i][ccs[c].coded_field].CodeID = code_id})

\* the number of labels of individual i that the theme scan counts in the row of a theme
ThemeAssignments(theme) ==
    LET ccs == RQA_CODING_PLANS[episode].coding_configurations
    IN  IF individuals[i].consent_withdrawn = "true" THEN 0
        ELSE Cardinality(UNION {{<<c, l>> : l \in {h \in 1..Len(individuals[i][ccs[c].coded_field]) :
                 LET code == get_code_with_code_id(ccs[c].code_scheme,
                                 individuals[i][ccs[c].coded_field][h].CodeID)
                 IN  code.control_code # "STOP" /\ ThemeKey(ccs[c], code) = theme}} :
                 c \in 1..Len(ccs)})

\* a step of a scan: it neither adds nor removes a key, lowers no count, and when it
\* raises nothing it adds one per matching assignment of the record
ScanStep ==
    /\ pc \in {"repeat_scan", "demog_scan", "theme_scan"} => TallyKeys' = TallyKeys
    /\ pc = "repeat_scan" =>
          \A k \in DOMAIN repeat_participations :
             repeat_participations'[k].Number_of_Individuals
                 = repeat_participations[k].Number_of_Individuals
                   + (IF /\ error' = NoError /\ individuals[i].consent_withdrawn = "false"
                         /\ k = PlansWithRawField(i) THEN 1 ELSE 0)
    /\ pc = "demog_scan" =>
          \A key \in DOMAIN demographic_distributions :
             \A code_id \in DOMAIN demographic_distributions[key] :
                LET added == demographic_distributions'[key][code_id]
                                 - demographic_distributions[key][code_id]
                IN  IF error' = NoError THEN added = DemogAssignments(key, code_id)
                    ELSE added \in 0..DemogAssignments(key, code_id)
    /\ pc = "theme_scan" =>
          \A theme \in DOMAIN ThemesOf(episode) :
             /\ \A slot \in SurveyCountKeys :
                   ThemesOf(episode)'[theme][slot] >= ThemesOf(episode)[theme][slot]
             /\ LET added == ThemesOf(episode)'[theme][TotalParticipants]
                                 - ThemesOf(episode)[theme][TotalParticipants]
                IN  IF theme = TotalRelevantParticipants THEN added \in 0..1
                    ELSE IF error' = NoError THEN added = ThemeAssignments(theme)
                    ELSE added \in 0..ThemeAssignments(theme)

\* a step that is not a pre-population leaves the keys of the tallies as they are
KeysFixed ==
    pc \notin {"repeat_init", "demog_init", "theme_init"} => TallyKeys' = TallyKeys

\* C16: in the repeat-participation, demographic and theme passes every key of the tally
\* is there with count 0 before the first record is scanned; a scan step adds 1 to a
\* count per matching assignment of the record and adds or removes no key, and no later
\* step of the run changes the keys.
C16_TallyKeysFixedAtPrepopulation ==
    /\ []ZeroBeforeFirstRecord
    /\ [][ScanStep /\ KeysFixed]_vars

\* the three scans are over, with counts above 0 in each tally under keys that were
\* pre-populated
C16_Witness ==
    /\ pc = "done"
    /\ \E k \in DOMAIN repeat_participations : repeat_participations[k].Number_of_Individuals > 1
    /\ \E key \in DOMAIN demographic_distributions :
          \E code_id \in DOMAIN demographic_distributions[key] :
             demographic_distributions[key][code_id] > 1
    /\ \E theme \in DOMAIN ThemesOf(2) \ {TotalRelevantParticipants} :
          ThemesOf(2)[theme][TotalParticipants] > 1

-----------------------------------------------------------------------------

\* the pass a block belongs to
PassOf(block) ==
    CASE block = "engagement" -> "engagement"
      [] block \in {"repeat_init", "repeat_scan", "repeat_percent", "repeat_export"} -> "repeat"
      [] block \in {"demog_init", "demog_scan", "demog_export"} -> "demog"
      [] block \in {"theme_init", "theme_scan", "theme_finalise", "theme_export"} -> "theme"
      [] OTHER -> "none"

Position(pass) == CHOOSE n \in 1..Len(pass_order) : pass_order[n] = pass

\* the pass has exported its table
Completed(pass) ==
    pc \in AfterPasses \/ (PassOf(pc) # "none" /\ Position(pass) < Position(PassOf(pc)))

\* the pass is where the run stopped with an exception
Failed(pass) == PassOf(pc) = pass /\ error # NoError

\* the tallies of each pass as the input records and the catalogs give them
ExpectedRepeatParticipations ==
    [k \in 1..Len(RQA_CODING_PLANS) |->
        LET count == Cardinality({n \in Consenting : PlansWithRawField(n) = k})
        IN  [Episodes_Participated_In |-> k,
             Number_of_Individuals |-> count,
             Pct_of_Individuals |-> Pct(Round1(count, Cardinality(Consenting)))]]

ConfigurationOfKey(key) ==
    CHOOSE cc \in KeyedConfigurations(DEMOG_CODING_PLANS) : cc.analysis_file_key = key

ExpectedDemographicDistributions ==
    [key \in {cc.analysis_file_key : cc \in KeyedConfigurations(DEMOG_CODING_PLANS)} |->
        [code_id \in {code.code_id : code \in {c \in Range(ConfigurationOfKey(key).code_scheme.codes) :
                                                   c.control_code # "STOP"}} |->
            Cardinality({n \in Consenting :
                            AssignedCode(n, ConfigurationOfKey(key)).code_id = code_id})]]

ExpectedTotalRelevant ==
    [key \in {cc.analysis_file_key : cc \in KeyedConfigurations(DEMOG_CODING_PLANS)} |->
        Cardinality({n \in Consenting :
                        AssignedCode(n, ConfigurationOfKey(key)).code_type = "Normal"})]

ExpectedThemeKeys(p) ==
    {"Total Relevant Participants"}
    \cup {cc.analysis_file_key \o code.string_value :
            <<cc, code>> \in UNION {{<<cc, code>> : code \in
                                        {c \in Range(cc.code_scheme.codes) : c.control_code # "STOP"}} :
                                    cc \in Range(RQA_CODING_PLANS[p].coding_configurations)}}

\* the individuals counted in a row of episode p, once per label counted
ExpectedCounted(p, key) ==
    IF key = "Total Relevant Participants"
    THEN {<<n, 0>> : n \in RelevantAmong(p, Len(individuals))}
    ELSE CountedLabels(p, Len(individuals), key, IsStopCode)

ExpectedCount(p, key, slot) ==
    IF slot = "Total Participants" THEN Cardinality(ExpectedCounted(p, key))
    ELSE Cardinality({c \in ExpectedCounted(p, key) : slot \in AnsweredSlots(c[1])})

ExpectedThemes(p) ==
    [key \in ExpectedThemeKeys(p) |->
        [slot \in {pair[1] : pair \in SurveySlotPairs} \cup {pair[2] : pair \in SurveySlotPairs} |->
            IF \E pair \in SurveySlotPairs : pair[1] = slot
            THEN ExpectedCount(p, key, slot)
            ELSE LET count_slot == (CHOOSE pair \in SurveySlotPairs : pair[2] = slot)[1]
                 IN  IF key \notin FinalisedRowKeys(p) THEN None
                     ELSE Percentage(ExpectedCount(p, key, count_slot),
                                     ExpectedCount(p, "Total Relevant Participants", count_slot))]]

\* whether a pass raises an exception, as the input records and the catalogs give it
Fails(pass) ==
    CASE pass = "engagement" -> FALSE
      [] pass = "repeat" -> NonParticipants # {} \/ Consenting = {}
      [] pass = "demog" ->
            \E cc \in KeyedConfigurations(DEMOG_CODING_PLANS) :
               \/ Consenting # {} /\ cc.coding_mode # "SINGLE"
               \/ \E n \in Consenting : \/ AssignedCode(n, cc) = NoSuchCode
                                        \/ AssignedCode(n, cc).control_code = "STOP"
               \/ /\ \E code \in Range(cc.code_scheme.codes) : code.code_type = "Normal"
                  /\ \A n \in Consenting : AssignedCode(n, cc).code_type # "Normal"
      [] pass = "theme" ->
            \E p \in 1..Len(RQA_CODING_PLANS) :
               \/ \E cc \in Range(RQA_CODING_PLANS[p].coding_configurations) :
                     cc.coding_mode # "MULTIPLE"
               \/ \E n \in Consenting : \E l \in LabelsOf(n, p) : l.code = NoSuchCode

\* C17: each of the four passes ends as the input records and the catalogs alone give it,
\* in whatever order the passes are run: a pass that has exported its table holds the
\* tallies that follow from the inputs, and a pass raises an exception only on inputs on
\* which it raises one in every order.
C17_PassesIndependentOfOrder ==
    /\ \A pass \in Range(pass_order) :
          /\ Completed(pass) => ~Fails(pass)
          /\ Failed(pass) => Fails(pass)
    /\ Completed("engagement") =>
          engagement_counts
              = Put(EngagementRows(RQA_CODING_PLANS, EmptyDict), "Total", engagement_total_row)
    /\ Completed("repeat") => repeat_participations = ExpectedRepeatParticipations
    /\ Completed("demog") =>
          /\ demographic_distributions = ExpectedDemographicDistributions
          /\ total_relevant = ExpectedTotalRelevant
    /\ Completed("theme") =>
          \A p \in 1..Len(RQA_CODING_PLANS) : ThemesOf(p) = ExpectedThemes(p)

\* the four passes are over in an order that starts with the theme pass and ends with the
\* engagement counts, with a participant of two plans among the individuals
C17_Witness ==
    /\ pc = "done"
    /\ pass_order[1] = "theme" /\ pass_order[2] = "demog" /\ pass_order[4] = "engagement"
    /\ repeat_participations[2].Number_of_Individuals = 1
    /\ demographic_distributions["gender"]["code-female"] = 1
    /\ ThemesOf(2)["Total Relevant Participants"]["Total Participants"] = 1

-----------------------------------------------------------------------------

\* the yes/stop plan is in the demographic catalog
AnswerExported ==
    \E cc \in KeyedConfigurations(DEMOG_CODING_PLANS) : cc.analysis_file_key = "answer"

\* the row of 'yes' in demographic_distributions.csv
AnswerRows ==
    {k \in 1..Len(FileRows("demographic_distributions.csv")) :
        FileRows("demographic_distributions.csv")[k].Code = "yes"}

\* C18: with A coded yes, B coded stop and C coded yes, none of them withdrawn, the run
\* raises nothing and ends with 2 under 'yes', 2 relevant and 100.0 percent for 'yes', in
\* the demographic tally of the plan when the plan is a demographic plan and in its theme
\* rows.
C18_EndToEndYesStopYes ==
    individuals = EndToEndIndividuals =>
        /\ error = NoError
        /\ pc = "done" =>
              /\ ThemesOf(1)["rqa_s01e01_yes"]["Total Participants"] = 2
              /\ ThemesOf(1)["Total Relevant Participants"]["Total Participants"] = 2
              /\ ThemesOf(1)["rqa_s01e01_yes"]["Total Participants %"] = Pct(1000)
              /\ AnswerExported =>
                    /\ demographic_distributions["answer"]["code-yes"] = 2
                    /\ total_relevant["answer"] = 2
                    /\ \E k \in AnswerRows :
                          FileRows("demographic_distributions.csv")[k].Percent = Pct(1000)

\* the same with the plan in the RQA catalog only: the theme pass skips the label of B
C18_ThemeRowsYesStopYes ==
    (individuals = EndToEndIndividuals /\ ~AnswerExported) =>
        /\ error = NoError
        /\ pc = "done" =>
              /\ ThemesOf(1)["rqa_s01e01_yes"]["Total Participants"] = 2
              /\ "rqa_s01e01_stop" \notin DOMAIN ThemesOf(1)
              /\ ThemesOf(1)["Total Relevant Participants"]["Total Participants"] = 2
              /\ ThemesOf(1)["rqa_s01e01_yes"]["Total Participants %"] = Pct(1000)

C18_ThemeRowsWitness == individuals = EndToEndIndividuals /\ ~AnswerExported /\ pc = "done"

-----------------------------------------------------------------------------

\* the (configuration, code) pairs of RQA plan p that the by-gender graph takes as themes
GraphedPairs(p) ==
    UNION {{<<cc, code>> : code \in {c \in Range(cc.code_scheme.codes) :
                                        /\ c.code_type = "Normal"
                                        /\ c.string_value \notin {"knowledge", "attitude", "behaviour"}}} :
           cc \in Range(RQA_CODING_PLANS[p].coding_configurations)}

NormalGenders == {code.string_value : code \in {c \in Range(GENDER.codes) : c.code_type = "Normal"}}

\* the by-gender graphs made for RQA plan p
GraphsOf(p) ==
    {g \in 1..Len(normal_by_gender) :
        normal_by_gender[g].raw_field = RQA_CODING_PLANS[p].raw_field}

\* C19: the by-gender data of a plan has one entry per NORMAL theme that is not named
\* knowledge, attitude or behaviour and per NORMAL gender code, and no other entry; the
\* entry holds the theme row's count for the gender, and its fraction is None exactly
\* when the 'Total Relevant Participants' count of the gender is 0 and else the count over
\* that count.
C19_ThemeByGenderFractions ==
    pc = "done" =>
        \A p \in 1..Len(RQA_CODING_PLANS) :
            /\ Cardinality(GraphsOf(p)) = IF GraphedPairs(p) = {} THEN 0 ELSE 1
            /\ \A g \in GraphsOf(p) :
                  LET entries == normal_by_gender[g].normal_by_gender
                  IN  /\ Len(entries) = Cardinality(GraphedPairs(p)) * Cardinality(NormalGenders)
                      /\ \A pair \in GraphedPairs(p) : \A gender \in NormalGenders :
                            \E k \in 1..Len(entries) :
                               /\ entries[k].RQA_Theme = pair[2].string_value
                               /\ entries[k].Gender = gender
                      /\ \A k \in 1..Len(entries) :
                            \E pair \in GraphedPairs(p) :
                               LET count == ThemesOf(p)[pair[1].analysis_file_key
                                                \o pair[2].string_value]["gender:" \o entries[k].Gender]
                                   total == ThemesOf(p)["Total Relevant Participants"]
                                                ["gender:" \o entries[k].Gender]
                                   fraction == entries[k].Fraction_of_Relevant_Participants
                               IN  /\ entries[k].RQA_Theme = pair[2].string_value
                                   /\ entries[k].Gender \in NormalGenders
                                   /\ entries[k].Number_of_Participants = count
                                   /\ (fraction = None) <=> (total = 0)
                                   /\ fraction # None =>
                                         /\ fraction[1] = "fraction"
                                         /\ fraction[2] * total = fraction[3] * count

\* the scheme of the first plan names the theme 'knowledge' next to the theme 'a': the
\* graph has entries for 'a' only, one of two relevant men and none of no relevant woman
C19_Witness ==
    /\ pc = "done"
    /\ \E code \in Range(RQA_CODING_PLANS[1].coding_configurations[1].code_scheme.codes) :
          code.string_value = "knowledge" /\ code.code_type = "Normal"
    /\ ThemesOf(1)["rqa_s01e01_knowledge"]["Total Participants"] > 0
    /\ \A g \in GraphsOf(1) :
          LET entries == normal_by_gender[g].normal_by_gender
          IN  /\ \A k \in 1..Len(entries) : entries[k].RQA_Theme = "a"
              /\ \E k \in 1..Len(entries) :
                    /\ entries[k].Gender = "male"
                    /\ entries[k].Fraction_of_Relevant_Participants = Fraction(1, 2)
              /\ \E k \in 1..Len(entries) :
                    /\ entries[k].Gender = "female"
                    /\ entries[k].Fraction_of_Relevant_Participants = None
    /\ GraphsOf(1) # {}

-----------------------------------------------------------------------------

\* the conversion is over
ConversionDone == script \in Scripts /\ pc \in {"export", "exported"}

\* the collected uuids that the uuid table knows, and those it does not know
Known == uuids \cap DOMAIN uuid_table
Unknown == uuids \ DOMAIN uuid_table

\* the count reported under a text, if it was reported
Reported(text) == {log[k].count : k \in {n \in 1..Len(log) : log[n].text = text}}

\* C20: in both export scripts a collected uuid that the uuid table does not know raises
\* nothing; the phone number of every collected uuid that the table knows is converted
\* and written to the CSV, and the number reported as not re-identified is the number of
\* collected uuids that the table does not know.
C20_UnknownUuidsSkippedAndCounted ==
    /\ (script \in Scripts /\ pc = "convert") => error = NoError
    /\ ConversionDone =>
          /\ error = NoError
          /\ phone_numbers = {"+" \o uuid_table[uuid] : uuid \in Known}
          /\ skipped_uuids = Unknown
          /\ Reported("Unable to re-identify") = {Cardinality(Unknown)}
    /\ (script \in Scripts /\ pc = "exported") =>
          /\ FileOpened("csv_output_file_path")
          /\ \A uuid \in Known :
                [URN_Tel |-> "+" \o uuid_table[uuid]] \in FileRows("csv_output_file_path")
          /\ Cardinality(FileRows("csv_output_file_path")) = Cardinality(phone_numbers)

\* a CSV is written with the numbers of two uuids, a third uuid being unknown to the table
C20_Witness ==
    /\ script = "export_contact_lists" /\ pc = "exported"
    /\ Cardinality(Known) = 2 /\ Cardinality(Unknown) = 1
    /\ Cardinality(FileRows("csv_output_file_path")) = 2
    /\ Reported("Unable to re-identify") = {1}

\* the same for the weekly advert contacts
C20_WitnessWeeklyAd ==
    /\ script = "export_weekly_ad_contacts" /\ pc = "exported"
    /\ Cardinality(Known) = 1 /\ Cardinality(Unknown) = 1
    /\ Cardinality(FileRows("csv_output_file_path")) = 1
    /\ Reported("Unable to re-identify") = {1}

-----------------------------------------------------------------------------

\* C21: once an episode is scanned, the 'Total Participants' of each of its NORMAL theme
\* rows is at most that of its 'Total Relevant Participants' row, and once the episode is
\* finalised no 'Total Participants %' is above 100.0, whatever labels the individuals
\* carry (a list that names one code twice included).
C21_ThemeRowAtMostTotalRelevant ==
    \A p \in 1..Len(RQA_CODING_PLANS) :
        \A key \in FinalisedRowKeys(p) :
            LET row == ThemesOf(p)[key]
                total_row == ThemesOf(p)["Total Relevant Participants"]
            IN  /\ EpisodeScanned(p) =>
                      row["Total Participants"] <= total_row["Total Participants"]
                /\ (EpisodeFinalised(p) /\ total_row["Total Participants"] # 0) =>
                      row["Total Participants %"][2] <= 1000

\* the same for individuals none of whose label lists names a code twice: this holds
C21_DistinctLabelsAtMostTotalRelevant ==
    (\A n \in Consenting : \A p \in 1..Len(RQA_CODING_PLANS) :
        \A l, m \in LabelsOf(n, p) :
            (l.cc.analysis_file_key \o l.code.string_value
                 = m.cc.analysis_file_key \o m.code.string_value) => l = m)
        => C21_ThemeRowAtMostTotalRelevant

\* a finished run in which theme rows counted individuals with distinct labels
C21_DistinctLabelsWitness ==
    /\ pc = "done"
    /\ C21_DistinctLabelsAtMostTotalRelevant
    /\ \A n \in Consenting : \A l, m \in LabelsOf(n, 1) :
          l.code.code_id = m.code.code_id => l = m
    /\ ThemesOf(1)["rqa_s01e01_a"]["Total Participants"] = 2
    /\ ThemesOf(1)["Total Relevant Participants"]["Total Participants"] = 3

-----------------------------------------------------------------------------

\* the single-select survey configurations that have slots in a row
SingleSelectSurveys ==
    {cc \in KeyedConfigurations(SURVEY_CODING_PLANS) : cc.coding_mode = "SINGLE"}

\* the count slots of a survey configuration
CountSlots(cc) ==
    {cc.analysis_file_key \o ":" \o code.string_value :
        code \in {c \in Range(cc.code_scheme.codes) : c.control_code # "STOP"}}

\* the individuals the row `key` of episode p has counted so far, one entry per time
\* the row counted the individual
CountedIn(p, key) ==
    IF key = "Total Relevant Participants"
    THEN {<<n, n>> : n \in RelevantAmong(p, Scanned(p))}
    ELSE CountedLabels(p, Scanned(p), key, IsStopCode)

-----------------------------------------------------------------------------

\* the records of all the given files
LoadedRecords == UNION {Range(traced_data[f]) : f \in 1..Len(traced_data)}

\* the uids with a record whose consent is withdrawn, and those with a record whose
\* consent is not
WithdrawnUids == {td.uid : td \in {r \in LoadedRecords : r.consent_withdrawn = "true"}}
ConsentingUids == {td.uid : td \in {r \in LoadedRecords : r.consent_withdrawn # "true"}}

\* the CSV of the weekly advert contacts is written
WeeklyAdExported == script = "export_weekly_ad_contacts" /\ pc = "exported"

\* C23: export_weekly_ad_contacts never exports the phone number of a uid that has, in
\* any of the given files, a record whose consent_withdrawn is TRUE.
C23_WithdrawnNeverExported ==
    WeeklyAdExported =>
        \A uid \in WithdrawnUids \cap DOMAIN uuid_table :
            [URN_Tel |-> "+" \o uuid_table[uid]] \notin FileRows("csv_output_file_path")

\* what the script does ensure: a uid all of whose records are withdrawn is not
\* submitted for conversion
C23_OnlyConsentingRecordsCollected ==
    script = "export_weekly_ad_contacts" => uuids \subseteq ConsentingUids

\* a CSV written from files that hold a uid whose only record is withdrawn
C23_OnlyConsentingRecordsWitness ==
    /\ WeeklyAdExported
    /\ "uuid-3" \in WithdrawnUids \ ConsentingUids
    /\ "uuid-3" \in DOMAIN uuid_table
    /\ Cardinality(FileRows("csv_output_file_path")) = 2

-----------------------------------------------------------------------------

\* the records of the files before file f, in the order they are processed
RECURSIVE RecordsBefore(_)
RecordsBefore(f) == IF f <= 1 THEN <<>> ELSE RecordsBefore(f - 1) \o traced_data[f - 1]

\* the target county a record names, if it names one
NamesTargetCounty(td) ==
    /\ td.county_coded # [string |-> "STOP"]
    /\ get_code_with_code_id(COUNTY, td.county_coded.CodeID).string_value \in TARGET_COUNTIES

\* the positions of the records of uid that name a target county
TargetRecords(records, uid) ==
    {k \in 1..Len(records) : records[k].uid = uid /\ NamesTargetCounty(records[k])}

\* the uids of a list of records with a record in a target county
TargetUids(records) ==
    {records[k].uid : k \in {n \in 1..Len(records) : NamesTargetCounty(records[n])}}

\* the target county of the first record of uid that names one
FirstTargetCounty(records, uid) ==
    LET first == CHOOSE k \in TargetRecords(records, uid) :
                     \A h \in TargetRecords(records, uid) : k <= h
    IN  get_code_with_code_id(COUNTY, records[first].county_coded.CodeID).string_value

\* per county, the uids whose first record in a target county names that county
CountsByFirstCounty(records) ==
    [county \in TARGET_COUNTIES |->
        Cardinality({uid \in TargetUids(records) : FirstTargetCounty(records, uid) = county})]

\* the state of the search after the first k records of the file at `path`
SearchAfter(k) ==
    SearchTargetCounties(SubSeq(traced_data[path], 1, k),
        [uuids |-> uuids, county_counts |-> county_counts, file_uuids |-> {},
         file_county_counts |-> [county \in TARGET_COUNTIES |-> 0], err |-> NoError])

\* C24: in export_contact_lists, after every record processed the running per-county
\* counts sum to the size of the running uuid set and the per-file counts to the size of
\* the per-file uuid set, and each uid is counted under exactly one target county, that of
\* its first record in a target county (of the run for the running counts, of the file
\* for the per-file counts), also when its records are in several files or name
\* different target counties.
C24_CountyCountsMatchUuids ==
    (script = "export_contact_lists" /\ error = NoError) =>
        /\ uuids = TargetUids(RecordsBefore(path))
        /\ county_counts = CountsByFirstCounty(RecordsBefore(path))
        /\ SumOver(county_counts, TARGET_COUNTIES) = Cardinality(uuids)
        /\ pc = "collect" =>
              \A k \in 0..Len(traced_data[path]) :
                  LET st == SearchAfter(k)
                      file == SubSeq(traced_data[path], 1, k)
                      all == RecordsBefore(path) \o file
                  IN  /\ st.err = NoError
                      /\ st.uuids = TargetUids(all)
                      /\ st.file_uuids = TargetUids(file)
                      /\ st.county_counts = CountsByFirstCounty(all)
                      /\ st.file_county_counts = CountsByFirstCounty(file)
                      /\ SumOver(st.county_counts, TARGET_COUNTIES) = Cardinality(st.uuids)
                      /\ SumOver(st.file_county_counts, TARGET_COUNTIES)
                            = Cardinality(st.file_uuids)
        /\ \A n \in 1..Len(log) :
              log[n].text \in {"Found", "Running total"} =>
                  SumOver(log[n].counts, TARGET_COUNTIES) = log[n].count

\* two files processed: uuid-2 is in makueni in the first and in kitui in the second, and
\* is counted once, under makueni
C24_Witness ==
    /\ script = "export_contact_lists" /\ pc = "convert"
    /\ Len(traced_data) = 2
    /\ TargetRecords(traced_data[1], "uuid-2") # {}
    /\ FirstTargetCounty(traced_data[1], "uuid-2") = "makueni"
    /\ \E k \in TargetRecords(traced_data[2], "uuid-2") :
          traced_data[2][k].county_coded.CodeID = "code-kitui"
    /\ uuids = {"uuid-1", "uuid-2"}
    /\ county_counts["makueni"] = 1 /\ county_counts["kitui"] = 1
    /\ TargetRecords(traced_data[2], "uuid-1") # {}

-----------------------------------------------------------------------------

\* C25: in both export scripts, the number reported as successfully converted (the size
\* of the phone-number set) plus the number reported as not re-identified is the number
\* of uuids submitted for conversion, for every lookup table, one that maps two uuids to
\* the same phone number included.
C25_ConvertedPlusSkippedIsSubmitted ==
    ConversionDone =>
        /\ Reported("Successfully converted") = {Cardinality(phone_numbers)}
        /\ \A converted \in Reported("Successfully converted") :
              \A skipped \in Reported("Unable to re-identify") :
                  converted + skipped = Cardinality(uuids)

\* what the conversion does ensure: the two numbers sum to at most the number of uuids
\* submitted, and to that number when no two submitted uuids have the same phone number
C25_ConvertedPlusSkippedAtMostSubmitted ==
    ConversionDone =>
        /\ Cardinality(phone_numbers) + Cardinality(skipped_uuids) <= Cardinality(uuids)
        /\ (\A a, b \in Known : uuid_table[a] = uuid_table[b] => a = b) =>
              Cardinality(phone_numbers) + Cardinality(skipped_uuids) = Cardinality(uuids)

\* three uuids submitted, two of them with distinct numbers and one unknown
C25_AtMostSubmittedWitness ==
    /\ ConversionDone
    /\ Cardinality(uuids) = 3
    /\ Cardinality(phone_numbers) = 2
    /\ Cardinality(skipped_uuids) = 1

-----------------------------------------------------------------------------

\* the tables in the order of their passes
TableOrder ==
    << "engagement_counts.csv", "repeat_participations.csv", "demographic_distributions.csv",
       "theme_distributions.csv", "sample_messages.csv" >>

\* the names of the files opened for writing so far, in the order they were opened
Written == [k \in 1..Len(files) |-> files[k].name]

\* the number of passes that come before the pass of a block
PassesBefore(block) ==
    CASE PassOf(block) = "engagement" -> 0
      [] PassOf(block) = "repeat" -> 1
      [] PassOf(block) = "demog" -> 2
      [] PassOf(block) = "theme" -> 3
      [] block \in {"sample", "sample_export"} -> 4
      [] OTHER -> 5

\* the number of rows of a whole demographic table
DemogTableLength ==
    Len(SelectSeq(CodeCells(Keyed(ConfigurationsOf(DEMOG_CODING_PLANS))),
                  LAMBDA cell : cell.code.control_code # "STOP"))

\* a table that is there holds all of its rows
WrittenInFull(name) ==
    CASE name = "engagement_counts.csv" ->
             Len(FileRows(name)) = Len(RQA_CODING_PLANS) + 1
      [] name = "repeat_participations.csv" -> FileRows(name) = repeat_participations
      [] name = "demographic_distributions.csv" -> Len(FileRows(name)) = DemogTableLength
      [] name = "theme_distributions.csv" -> FileRows(name) = ThemeFileRows(episodes.keys)
      [] name = "sample_messages.csv" -> FileRows(name) = samples

\* C26: automated_analysis writes its tables in the order engagement_counts,
\* repeat_participations, demographic_distributions, theme_distributions,
\* sample_messages, each when its own pass has finished; so at every moment, and when a
\* pass has raised a fatal error, the tables of the earlier passes are there in full and
\* no table of the current pass or of a later pass is there.
C26_TablesInPassOrderAndWhole ==
    script = "automated_analysis" =>
        /\ Written = SubSeq(TableOrder, 1, PassesBefore(pc))
        /\ \A k \in 1..Len(Written) : WrittenInFull(Written[k])

\* the demographic export has raised ZeroDivisionError while writing its rows
DemogExportFailed == pc = "demog_export" /\ error = ZeroDivisionError

\* what the run does ensure: the tables are opened in the order of their passes, each
\* after the scan of its pass, and the tables of the earlier passes are there in full;
\* the table of the current pass is there only when the demographic export has failed,
\* and then it lacks the row that failed and the rows after it.
C26_TablesInPassOrder ==
    script = "automated_analysis" =>
        IF DemogExportFailed
        THEN /\ Written = SubSeq(TableOrder, 1, 3)
             /\ WrittenInFull(Written[1]) /\ WrittenInFull(Written[2])
             /\ Len(FileRows("demographic_distributions.csv")) < DemogTableLength
        ELSE C26_TablesInPassOrderAndWhole

\* a run that stopped in the demographic scan: the two earlier tables are there, the
\* other three are not
C26_TablesInPassOrderWitness ==
    /\ pc = "demog_scan" /\ error # NoError
    /\ Written = << "engagement_counts.csv", "repeat_participations.csv" >>
    /\ Len(FileRows("repeat_participations.csv")) = 2

\* a run that stopped in the demographic export with rows of the table written
C26_PartialTableWitness ==
    /\ DemogExportFailed
    /\ Len(FileRows("demographic_distributions.csv")) = 3

\* a finished run with the five tables
C26_AllTablesWitness == pc = "done" /\ Written = TableOrder

====
